---- MODULE Spec2Model ----
(***************************************************************************)
(* Task dependency graph and scheduling engine of Orga                     *)
(* (orga/api/task.py, orga/api/project.py, orga/api/gantt.py,              *)
(*  orga/doctype/orga_task/orga_task.py).                                  *)
(*                                                                         *)
(* The database is one project with its tasks, milestones and dependency   *)
(* rows.  Every whitelisted endpoint is one action: it runs inside one     *)
(* request, and ends with frappe.db.commit() or, on an exception caught by *)
(* the endpoint, frappe.db.rollback().  Dates are day numbers; NoDate is   *)
(* Python's None; "" is an empty Data field; NoTask is an empty Link.      *)
(* Tasks of the model have auto_trail_start = 0.                           *)
(***************************************************************************)
EXTENDS Integers, Sequences, FiniteSets, TLC

VARIABLES
    tasks,             \* names of the existing Orga Task rows
    status,            \* Orga Task.status
    start_date,        \* Orga Task.start_date
    due_date,          \* Orga Task.due_date
    is_blocked,        \* Orga Task.is_blocked (stored flag)
    task_group,        \* Orga Task.task_group
    depends_on_group,  \* Orga Task.depends_on_group
    sched,             \* Orga Task.task_scheduling_type
    edges,             \* rows of Orga Task Dependency
    sort_order,        \* Orga Task.sort_order
    parent_task,       \* Orga Task.parent_task
    ms_sort_order,     \* Orga Milestone.sort_order
    ms_due_date,       \* Orga Milestone.due_date
    notified,          \* tasks for which the last request created an unblock notification
    mode,              \* Orga Project.dependency_mode
    project_start,     \* Orga Project.start_date
    project_end,       \* Orga Project.end_date
    today,             \* nowdate()
    template,          \* Orga Project Template.template_data: its list of tasks
    created,           \* tasks and dependency rows of the project a template was applied to
    last               \* the last request: endpoint, arguments, outcome

vars == <<tasks, status, start_date, due_date, is_blocked, task_group,
          depends_on_group, sched, edges, sort_order, parent_task,
                   ms_sort_order,
          ms_due_date, notified, mode, project_start, project_end, today,
          template, created, last>>

-----------------------------------------------------------------------------
(* Bounds of the model *)

NumTasks == 3
NumMilestones == 1
MaxDay == 16
MaxEdges == 2
MaxLag == 2
MaxFail == 3
MaxMoves == 1

(* Program constants *)

NoDate == -1
(* a project without tasks *)
NoProject == [tasks |-> {}, edges |-> {}]
NoTask == 0
MaxCascadeDepth == 100

TaskIds == 1..NumTasks
MsIds == 1..NumMilestones
Days == 0..MaxDay
Lags == 0..MaxLag

FS == "Finish to Start"
SS == "Start to Start"
FF == "Finish to Finish"
SF == "Start to Finish"
DepTypes == {FS, SS, FF, SF}

ValidStatuses == {"Open", "In Progress", "Review", "Completed", "Cancelled"}
Terminal == {"Completed", "Cancelled"}

Max2(a, b) == IF a >= b THEN a ELSE b
Min2(a, b) == IF a <= b THEN a ELSE b

SetMax(S) == CHOOSE x \in S : \A y \in S : y <= x
SetMin(S) == CHOOSE x \in S : \A y \in S : x <= y

(* A set of integers as the ascending sequence of its elements. *)
RECURSIVE SortedSeq(_)
SortedSeq(S) ==
    IF S = {} THEN <<>>
    ELSE LET m == SetMin(S) IN <<m>> \o SortedSeq(S \ {m})

-----------------------------------------------------------------------------
(* The database as one value, so that a handler is a composition of writes *)

DB == [tasks |-> tasks, status |-> status, start_date |-> start_date,
       due_date |-> due_date, is_blocked |-> is_blocked,
       task_group |-> task_group, depends_on_group |-> depends_on_group,
       sched |-> sched, edges |-> edges, sort_order |-> sort_order,
       parent_task |-> parent_task, ms_sort_order |-> ms_sort_order,
       notified |-> {}]

(* frappe.db.commit(): the working copy d becomes the stored state. *)
Commit(d) ==
    /\ tasks' = d.tasks
    /\ status' = d.status
    /\ start_date' = d.start_date
    /\ due_date' = d.due_date
    /\ is_blocked' = d.is_blocked
    /\ task_group' = d.task_group
    /\ depends_on_group' = d.depends_on_group
    /\ sched' = d.sched
    /\ edges' = d.edges
    /\ sort_order' = d.sort_order
    /\ parent_task' = d.parent_task
    /\ ms_sort_order' = d.ms_sort_order
    /\ notified' = d.notified

(* frappe.db.set_value(doctype, name, field, value) *)
SetField(d, field, t, v) == [d EXCEPT ![field] = [@ EXCEPT ![t] = v]]

Env == <<ms_due_date, mode, project_start, project_end, today, template, created>>

-----------------------------------------------------------------------------
(* Reads *)

(* frappe.db.get_value("Orga Task", name, "status"); None for a missing row *)
StatusOf(d, t) == IF t \in d.tasks THEN d.status[t] ELSE ""

(* getdate(x): frappe's getdate returns today's date for None *)
GetDate(x) == IF x = NoDate THEN today ELSE x

(* rows of Orga Task Dependency with parent = t (the task's depends_on table) *)
DependsOnRows(d, t) == {e \in d.edges : e.parent = t}

(* rows of Orga Task Dependency with depends_on = t *)
DependentRows(d, t) == {e \in d.edges : e.depends_on = t}

(* the rows of a set in a fixed order (by parent, depends_on, type, lag):    *)
(* the order in which the database returns them                              *)
TypeRank(ty) == CASE ty = FS -> 0 [] ty = SS -> 1 [] ty = FF -> 2 [] OTHER -> 3
RowKey(e) == ((e.parent * (NumTasks + 1) + e.depends_on) * 4 + TypeRank(e.dependency_type))
              * (MaxLag + 2) + e.lag_days
RECURSIVE RowSeq(_)
RowSeq(R) ==
    IF R = {} THEN <<>>
    ELSE LET e == CHOOSE x \in R : \A y \in R : RowKey(x) <= RowKey(y)
         IN <<e>> \o RowSeq(R \ {e})

(* all orders in which the elements of a set can be iterated *)
Perms(S) == {p \in [1..Cardinality(S) -> S] : \A i, j \in DOMAIN p : i # j => p[i] # p[j]}

-----------------------------------------------------------------------------
(* the while loop of validate_parent_task: it follows the stored parents    *)
(* until one is empty or was met before                                     *)
RECURSIVE ParentWalkFails(_, _, _)
ParentWalkFails(d, parent, visited) ==
    IF parent = NoTask THEN FALSE
    ELSE IF parent \in visited THEN TRUE
    ELSE ParentWalkFails(d, IF parent \in d.tasks THEN d.parent_task[parent] ELSE NoTask,
                         visited \cup {parent})

(* OrgaTask.validate_parent_task raises *)
ValidateParentTaskFails(d, t) ==
    /\ d.parent_task[t] # NoTask
    /\ (d.parent_task[t] = t \/ ParentWalkFails(d, d.parent_task[t], {t}))

(* OrgaTask.validate_dependencies / _creates_dependency_cycle *)

(* depth-first search from the nodes of stack along depends-on rows, with   *)
(* the visited set shared by the whole search                                *)
RECURSIVE CreatesDependencyCycle(_, _, _, _)
CreatesDependencyCycle(d, self, stack, visited) ==
    IF stack = <<>> THEN FALSE
    ELSE LET n == Head(stack) IN
         IF n = self THEN TRUE
         ELSE IF n \in visited THEN CreatesDependencyCycle(d, self, Tail(stack), visited)
         ELSE CreatesDependencyCycle(d, self,
                  SortedSeq({e.depends_on : e \in DependsOnRows(d, n)}) \o Tail(stack),
                  visited \cup {n})

(* validate_dependencies throws *)
ValidateDependenciesFails(d, t) ==
    \E e \in DependsOnRows(d, t) :
        \/ e.depends_on = t
        \/ CreatesDependencyCycle(d, t, <<e.depends_on>>, {})

(* validate_dates throws *)
ValidateDatesFails(d, t) ==
    /\ d.due_date[t] # NoDate
    /\ d.start_date[t] # NoDate
    /\ d.start_date[t] > d.due_date[t]

(* validate_group_dependency throws *)
ValidateGroupDependencyFails(d, t) ==
    /\ d.depends_on_group[t] # ""
    /\ d.task_group[t] # ""
    /\ d.depends_on_group[t] = d.task_group[t]

-----------------------------------------------------------------------------
(* OrgaTask.update_blocked_status: the value it leaves in self.is_blocked *)

UpdateBlockedStatusAnyType(d, t) ==
    IF \E e \in DependsOnRows(d, t) : StatusOf(d, e.depends_on) # "Completed"
    THEN TRUE
    ELSE IF /\ d.depends_on_group[t] # ""
            /\ \E u \in d.tasks \ {t} :
                  /\ d.task_group[u] = d.depends_on_group[t]
                  /\ d.status[u] \notin {"Completed", "Cancelled"}
    THEN TRUE
    ELSE FALSE
UpdateBlockedStatus(d, t) ==
    IF \E e \in DependsOnRows(d, t) :
           e.dependency_type = FS /\ StatusOf(d, e.depends_on) # "Completed"
    THEN TRUE
    ELSE IF /\ d.depends_on_group[t] # ""
            /\ \E u \in d.tasks \ {t} :
                  /\ d.task_group[u] = d.depends_on_group[t]
                  /\ d.status[u] \notin {"Completed", "Cancelled"}
    THEN TRUE
    ELSE FALSE

-----------------------------------------------------------------------------
(* OrgaTask.recalculate_hammock_dates *)

HammockPredEnd(d, t) ==
    LET C == {d.due_date[e.depends_on] + 1 + e.lag_days :
                e \in {x \in DependsOnRows(d, t) :
                         /\ x.dependency_type = FS
                         /\ x.depends_on \in d.tasks
                         /\ d.due_date[x.depends_on] # NoDate}}
    IN IF C = {} THEN NoDate ELSE SetMax(C)

HammockSuccStart(d, t) ==
    LET C == {d.start_date[e.parent] - (1 + e.lag_days) :
                e \in {x \in DependentRows(d, t) :
                         /\ x.dependency_type = FS
                         /\ x.parent \in d.tasks
                         /\ d.start_date[x.parent] # NoDate}}
    IN IF C = {} THEN NoDate ELSE SetMin(C)

RecalculateHammockDates(d, t) ==
    IF d.sched[t] # "Hammock" THEN d
    ELSE LET pred_end == HammockPredEnd(d, t)
             succ_start == HammockSuccStart(d, t)
         IN IF /\ pred_end # NoDate
               /\ succ_start # NoDate
               /\ pred_end <= succ_start
               /\ (GetDate(d.start_date[t]) # pred_end \/ GetDate(d.due_date[t]) # succ_start)
            THEN SetField(SetField(d, "start_date", t, pred_end), "due_date", t, succ_start)
            ELSE d

-----------------------------------------------------------------------------
(* OrgaTask.update_dependent_tasks *)

(* the set "updated": tasks with a row on t, and tasks depending on t's group *)
DependentsOf(d, t) ==
    {e.parent : e \in {x \in DependentRows(d, t) : x.parent # t}}
    \cup (IF d.task_group[t] # ""
          THEN {u \in d.tasks \ {t} : d.depends_on_group[u] = d.task_group[t]}
          ELSE {})

(* first loop: recompute and store the flag, notify on unblock *)
RECURSIVE RecomputeBlockedLoop(_, _)
RecomputeBlockedLoop(d, order) ==
    IF order = <<>> THEN d
    ELSE LET u == Head(order)
             old_blocked == d.is_blocked[u]
             new_blocked == UpdateBlockedStatus(d, u)
             d1 == IF new_blocked # old_blocked
                   THEN SetField(d, "is_blocked", u, new_blocked)
                   ELSE d
             d2 == IF old_blocked /\ ~new_blocked
                   THEN [d1 EXCEPT !.notified = @ \cup {u}]
                   ELSE d1
         IN RecomputeBlockedLoop(d2, Tail(order))

(* second loop: hammock recalculation of every affected task *)
RECURSIVE RecalculateLoop(_, _)
RecalculateLoop(d, order) ==
    IF order = <<>> THEN d
    ELSE RecalculateLoop(RecalculateHammockDates(d, Head(order)), Tail(order))

(* order: the iteration order of the Python set "updated" *)
UpdateDependentTasks(d, t, order) ==
    RecalculateLoop(RecomputeBlockedLoop(d, order), order)

(* the same two loops when create_notification raises for the tasks of      *)
(* notify_fails and the recalculation raises for the tasks of recalc_fails: *)
(* the flag is stored before _notify_task_unblocked is called, which        *)
(* catches and logs; the body of the second loop is a try block of its own  *)
RECURSIVE RecomputeBlockedLoopFailing(_, _, _)
RecomputeBlockedLoopFailing(d, order, notify_fails) ==
    IF order = <<>> THEN d
    ELSE LET u == Head(order)
             old_blocked == d.is_blocked[u]
             new_blocked == UpdateBlockedStatus(d, u)
             d1 == IF new_blocked # old_blocked
                   THEN SetField(d, "is_blocked", u, new_blocked)
                   ELSE d
             d2 == IF old_blocked /\ ~new_blocked /\ u \notin notify_fails
                   THEN [d1 EXCEPT !.notified = @ \cup {u}]
                   ELSE d1
         IN RecomputeBlockedLoopFailing(d2, Tail(order), notify_fails)

RECURSIVE RecalculateLoopFailing(_, _, _)
RecalculateLoopFailing(d, order, recalc_fails) ==
    IF order = <<>> THEN d
    ELSE RecalculateLoopFailing(IF Head(order) \in recalc_fails THEN d
                                ELSE RecalculateHammockDates(d, Head(order)),
                                Tail(order), recalc_fails)

(* the tasks of order up to the first one of S *)
RECURSIVE UpToFirst(_, _)
UpToFirst(order, S) ==
    IF order = <<>> \/ Head(order) \in S THEN <<>>
    ELSE <<Head(order)>> \o UpToFirst(Tail(order), S)

UpdateDependentTasksUnguarded(d, t, order, notify_fails, recalc_fails) ==
    RecalculateLoopFailing(RecomputeBlockedLoopFailing(d, order, notify_fails),
                           UpToFirst(order, recalc_fails), {})
UpdateDependentTasksFailing(d, t, order, notify_fails, recalc_fails) ==
    RecalculateLoopFailing(RecomputeBlockedLoopFailing(d, order, notify_fails),
                           order, recalc_fails)

-----------------------------------------------------------------------------
(* preview_cascade *)

(* shift_days of preview_cascade *)
ShiftDaysFromStart(d, t, new_start_date, new_end_date) ==
    IF new_end_date # NoDate /\ d.start_date[t] # NoDate
    THEN new_end_date - d.start_date[t]
    ELSE 0
ShiftDays(d, t, new_start_date, new_end_date) ==
    IF new_end_date # NoDate /\ d.due_date[t] # NoDate
    THEN new_end_date - d.due_date[t]
    ELSE IF new_start_date # NoDate /\ d.start_date[t] # NoDate
    THEN new_start_date - d.start_date[t]
    ELSE 0

(* effective_shift of find_dependents: the shift applied to a dependent *)
EffectiveShiftWithLag(shift, lag_days) == shift + lag_days
EffectiveShift(shift, lag_days) == shift

(* the entry appended to "affected" for the row dep *)
AffectedEntry(d, dep, shift) ==
    LET p == dep.parent
        eff == EffectiveShift(shift, dep.lag_days)
    IN [task_id |-> p,
        status |-> d.status[p],
        old_value |-> d.start_date[p],
        new_value |-> IF d.start_date[p] # NoDate THEN d.start_date[p] + eff ELSE NoDate,
        old_end_date |-> d.due_date[p],
        new_end_date |-> IF d.due_date[p] # NoDate THEN d.due_date[p] + eff ELSE NoDate,
        days_shift |-> eff,
        dependency_type |-> dep.dependency_type,
        lag_days |-> dep.lag_days]

(* the rows find_dependents(t_name, shift, depth) iterates over *)
DependentFramesAnyDepth(d, t_name, depth) ==
    LET rows == RowSeq(DependentRows(d, t_name))
    IN [i \in 1..Len(rows) |-> [dep |-> rows[i], depth |-> depth]]
DependentFrames(d, t_name, depth) ==
    IF depth > MaxCascadeDepth THEN <<>>
    ELSE LET rows == RowSeq(DependentRows(d, t_name))
         IN [i \in 1..Len(rows) |-> [dep |-> rows[i], depth |-> depth]]

(* find_dependents, with its recursion unfolded into a work stack: one      *)
(* iteration of "for dep in deps" on the configuration c                    *)
FindStep(d, shift, c) ==
    IF c.stack = <<>> THEN c
    ELSE LET dep == Head(c.stack).dep
             depth == Head(c.stack).depth
         IN IF dep.parent \in c.visited
            THEN [c EXCEPT !.stack = Tail(@)]
            ELSE IF dep.parent \notin d.tasks
            THEN [c EXCEPT !.stack = Tail(@), !.visited = @ \cup {dep.parent}]
            ELSE [stack |-> DependentFrames(d, dep.parent, depth + 1) \o Tail(c.stack),
                  visited |-> c.visited \cup {dep.parent},
                  affected |-> Append(c.affected, AffectedEntry(d, dep, shift))]

(* n iterations, or as many as empty the stack *)
RECURSIVE FindSteps(_, _, _, _)
FindSteps(d, shift, c, n) ==
    IF n = 0 \/ c.stack = <<>> THEN c
    ELSE IF n = 1 THEN FindStep(d, shift, c)
    ELSE LET half == FindSteps(d, shift, c, n \div 2)
         IN IF half.stack = <<>> THEN half
            ELSE FindSteps(d, shift, half, n - (n \div 2))

(* every row is iterated over once for each time the task it depends on is  *)
(* entered: once, or twice for a root that is reached again                 *)
FindDependents(d, shift, stack, visited, affected) ==
    FindSteps(d, shift, [stack |-> stack, visited |-> visited, affected |-> affected],
              Len(stack) + Cardinality(d.edges)).affected

(* affected_tasks returned by preview_cascade *)
PreviewCascade(d, t, new_start_date, new_end_date) ==
    IF new_start_date = NoDate /\ new_end_date = NoDate THEN <<>>
    ELSE LET shift_days == ShiftDays(d, t, new_start_date, new_end_date)
         IN IF shift_days = 0 THEN <<>>
            ELSE FindDependents(d, shift_days, DependentFrames(d, t, 0), {}, <<>>)

-----------------------------------------------------------------------------
(* apply_cascade / reschedule_dependents: the batch of set_value calls *)

(* the set_value calls for the entries of a change list *)
RECURSIVE ChangeWrites(_)
ChangeWrites(changes) ==
    IF changes = <<>> THEN <<>>
    ELSE LET c == Head(changes)
         IN (IF c.new_value # NoDate
             THEN <<[task |-> c.task_id, field |-> "start_date", value |-> c.new_value]>>
             ELSE <<>>)
            \o (IF c.new_end_date # NoDate
                THEN <<[task |-> c.task_id, field |-> "due_date", value |-> c.new_end_date]>>
                ELSE <<>>)
            \o ChangeWrites(Tail(changes))

(* the set_value calls of apply_cascade: the root first, then the changes *)
CascadeWrites(t, new_start_date, new_end_date, changes) ==
    (IF new_start_date # NoDate
     THEN <<[task |-> t, field |-> "start_date", value |-> new_start_date]>>
     ELSE <<>>)
    \o (IF new_end_date # NoDate
        THEN <<[task |-> t, field |-> "due_date", value |-> new_end_date]>>
        ELSE <<>>)
    \o ChangeWrites(changes)

(* the first n writes of a batch, in order; a write to a missing row changes nothing *)
RECURSIVE ApplyWrites(_, _, _)
ApplyWrites(d, writes, n) ==
    IF n = 0 \/ writes = <<>> THEN d
    ELSE LET w == Head(writes)
             d1 == IF w.task \in d.tasks THEN SetField(d, w.field, w.task, w.value) ELSE d
         IN ApplyWrites(d1, Tail(writes), n - 1)

(* frappe.db.rollback(): the stored state is the one of the last commit *)
RollbackSkipped(committed, working) == working
Rollback(committed, working) == committed

(* the database after a batch whose write number fail raises (0: none does) *)
RunBatch(d, writes, fail) ==
    IF fail = 0 THEN ApplyWrites(d, writes, Len(writes))
    ELSE Rollback(d, ApplyWrites(d, writes, fail - 1))

(* changes_list of apply_cascade: the given list, or the preview if it is empty *)
ChangesListWithoutFirst(d, t, new_start_date, new_end_date, changes) ==
    IF changes # <<>> THEN Tail(changes)
    ELSE PreviewCascade(d, t, new_start_date, new_end_date)
ChangesList(d, t, new_start_date, new_end_date, changes) ==
    IF changes # <<>> THEN changes
    ELSE PreviewCascade(d, t, new_start_date, new_end_date)

(* second loop of the Strict branch: recompute and store is_blocked *)
RECURSIVE RecomputeUpdated(_, _)
RecomputeUpdated(d, changes) ==
    IF changes = <<>> THEN d
    ELSE LET tid == Head(changes).task_id
         IN RecomputeUpdated(SetField(d, "is_blocked", tid, UpdateBlockedStatus(d, tid)),
                             Tail(changes))

(* _get_project_dependency_mode *)
GetProjectDependencyMode == IF mode = "" THEN "Flexible" ELSE mode

(* reschedule_dependents for an existing task: the database it leaves, and   *)
(* whether it returned (ok) or raised                                        *)
RescheduleDependentsAnyMode(d, t, fail) ==
    [db |-> RecomputeBlockedLoop(d, SortedSeq(DependentsOf(d, t))), ok |-> TRUE,
     affected |-> <<>>]
RescheduleDependents(d, t, fail) ==
    LET affected == PreviewCascade(d, t, d.start_date[t], d.due_date[t])
        writes == ChangeWrites(affected)
    IN IF GetProjectDependencyMode = "Off" THEN [db |-> d, ok |-> TRUE, affected |-> <<>>]
       ELSE IF affected = <<>> THEN [db |-> d, ok |-> TRUE, affected |-> <<>>]
       ELSE IF GetProjectDependencyMode = "Flexible"
       THEN [db |-> d, ok |-> TRUE, affected |-> affected]
       ELSE IF fail # 0 /\ fail <= Len(writes)
       THEN [db |-> Rollback(d, ApplyWrites(d, writes, fail - 1)), ok |-> FALSE,
             affected |-> affected]
       ELSE [db |-> RecomputeUpdated(ApplyWrites(d, writes, Len(writes)), affected),
             ok |-> TRUE, affected |-> affected]

-----------------------------------------------------------------------------
(* _advance_successors_on_completion *)

(* an anchor that ignores the completed task's due date *)
AdvanceAnchorToday(d, t) == today

(* anchor: today, or the day after the completed task's due date if later *)
AdvanceAnchor(d, t) ==
    IF d.due_date[t] # NoDate THEN Max2(today, d.due_date[t] + 1) ELSE today

(* all FS predecessors of the successor are Completed *)
AllPredsDone(d, s) ==
    \A e \in DependsOnRows(d, s) :
        e.dependency_type = FS => StatusOf(d, e.depends_on) = "Completed"

(* one iteration of the loop over the FS successor rows *)
AdvanceOneAnyPredecessor(d, succ, anchor) ==
    LET p == succ.parent
        new_start == anchor + succ.lag_days
    IN IF p \notin d.tasks \/ d.status[p] \in {"Completed", "Cancelled"} THEN d
       ELSE IF d.start_date[p] = NoDate \/ d.start_date[p] = new_start THEN d
       ELSE LET d1 == IF d.due_date[p] # NoDate
                      THEN SetField(d, "due_date", p,
                                    new_start + (d.due_date[p] - d.start_date[p]))
                      ELSE d
            IN SetField(d1, "start_date", p, new_start)
AdvanceOne(d, succ, anchor) ==
    LET p == succ.parent
        new_start == anchor + succ.lag_days
    IN IF p \notin d.tasks \/ d.status[p] \in {"Completed", "Cancelled"} THEN d
       ELSE IF ~AllPredsDone(d, p) THEN d
       ELSE IF d.start_date[p] = NoDate \/ d.start_date[p] = new_start THEN d
       ELSE LET d1 == IF d.due_date[p] # NoDate
                      THEN SetField(d, "due_date", p,
                                    new_start + (d.due_date[p] - d.start_date[p]))
                      ELSE d
            IN SetField(d1, "start_date", p, new_start)

RECURSIVE AdvanceLoop(_, _, _)
AdvanceLoop(d, rows, anchor) ==
    IF rows = <<>> THEN d
    ELSE AdvanceLoop(AdvanceOne(d, Head(rows), anchor), Tail(rows), anchor)

AdvanceSuccessorsOnCompletion(d, t) ==
    AdvanceLoop(d, RowSeq({e \in DependentRows(d, t) : e.dependency_type = FS}),
                AdvanceAnchor(d, t))

-----------------------------------------------------------------------------
(* Requests *)

(* every date of the database lies within the modelled calendar *)
InRange(d) ==
    \A t \in TaskIds :
        /\ d.start_date[t] \in Days \cup {NoDate}
        /\ d.due_date[t] \in Days \cup {NoDate}

Result(op, t, ok, args) == [op |-> op, task |-> t, ok |-> ok, args |-> args]

(* a request that raises before any write: the exception reaches the caller *)
Rejected(op, t, args) ==
    /\ last' = Result(op, t, FALSE, args)
    /\ notified' = {}
    /\ UNCHANGED <<tasks, status, start_date, due_date, is_blocked, task_group,
                   depends_on_group, sched, edges, sort_order, parent_task,
                   ms_sort_order>>
    /\ UNCHANGED Env

Row(t, dep, ty, lag) ==
    [parent |-> t, depends_on |-> dep, dependency_type |-> ty, lag_days |-> lag]

(* add_task_dependency(task_name, depends_on, dependency_type, lag_days) *)
AddTaskDependencyThrows(d, task_name, depends_on) ==
    \/ task_name = depends_on
    \/ task_name \notin d.tasks
    \/ depends_on \notin d.tasks
    \/ \E e \in d.edges : e.parent = task_name /\ e.depends_on = depends_on

AddTaskDependency(task_name, depends_on, dependency_type, lag_days) ==
    IF AddTaskDependencyThrows(DB, task_name, depends_on)
    THEN Rejected("add_task_dependency", task_name, <<depends_on>>)
    ELSE /\ Cardinality(edges) < MaxEdges
         /\ Commit([DB EXCEPT !.edges = @ \cup
                       {Row(task_name, depends_on, dependency_type, lag_days)}])
         /\ last' = Result("add_task_dependency", task_name, TRUE, <<depends_on>>)
         /\ UNCHANGED Env

(* remove_task_dependency(task_name, depends_on=...): the row of task_name   *)
(* on depends_on is deleted if there is one                                  *)
RemoveTaskDependency(task_name, depends_on) ==
    IF task_name \notin tasks
    THEN Rejected("remove_task_dependency", task_name, <<depends_on>>)
    ELSE /\ Commit([DB EXCEPT !.edges =
                       {e \in @ : ~(e.parent = task_name /\ e.depends_on = depends_on)}])
         /\ last' = Result("remove_task_dependency", task_name, TRUE, <<depends_on>>)
         /\ UNCHANGED Env

(* update_task_dependency(dependency_name, dependency_type, lag_days) *)
UpdateTaskDependency(row, dependency_type, lag_days) ==
    /\ row \in edges
    /\ Commit([DB EXCEPT !.edges = (@ \ {row}) \cup
                  {Row(row.parent, row.depends_on, dependency_type, lag_days)}])
    /\ last' = Result("update_task_dependency", row.parent, TRUE, <<row.depends_on>>)
    /\ UNCHANGED Env

(* OrgaTask.validate raises for the document d holds for t *)
ValidateFails(d, t) ==
    \/ ValidateDatesFails(d, t)
    \/ ValidateParentTaskFails(d, t)
    \/ ValidateDependenciesFails(d, t)
    \/ ValidateGroupDependencyFails(d, t)

(* doc.save(): validate (which ends with update_blocked_status), the write, *)
(* then on_update with update_dependent_tasks                               *)
SaveDoc(d, t, order) ==
    UpdateDependentTasks(SetField(d, "is_blocked", t, UpdateBlockedStatus(d, t)), t, order)

(* update_task_status(name, status) *)
UpdateTaskStatus(name, new_status) ==
    IF name \notin tasks
    THEN Rejected("update_task_status", name, <<new_status>>)
    ELSE LET d1 == SetField(DB, "status", name, new_status)
         IN IF ValidateFails(d1, name)
            THEN Rejected("update_task_status", name, <<new_status>>)
            ELSE \E order \in Perms(DependentsOf(d1, name)) :
                   LET d2 == SaveDoc(d1, name, order)
                       d3 == IF new_status = "Completed" /\ GetProjectDependencyMode # "Off"
                             THEN AdvanceSuccessorsOnCompletion(d2, name)
                             ELSE d2
                   IN /\ InRange(d3)
                      /\ Commit(d3)
                      /\ last' = Result("update_task_status", name, TRUE, <<new_status>>)
                      /\ UNCHANGED Env

(* bulk_update_status(tasks, status): set_value on every existing task *)
RECURSIVE BulkSetStatus(_, _, _)
BulkSetStatus(d, names, new_status) ==
    IF names = <<>> THEN d
    ELSE BulkSetStatus(IF Head(names) \in d.tasks
                       THEN SetField(d, "status", Head(names), new_status)
                       ELSE d,
                       Tail(names), new_status)

BulkUpdateStatus(names, new_status) ==
    /\ Commit(BulkSetStatus(DB, SortedSeq(names), new_status))
    /\ last' = Result("bulk_update_status", 0, TRUE, <<new_status>>)
    /\ UNCHANGED Env

(* delete_task(name): the rows of other tasks on it are deleted, then the   *)
(* task with its own rows; the fields of a missing row are kept at their    *)
(* defaults                                                                 *)
DeleteTask(name) ==
    IF name \notin tasks \/ (\E u \in tasks : parent_task[u] = name)
    THEN Rejected("delete_task", name, <<>>)
    ELSE /\ Commit([DB EXCEPT
                  !.edges = {e \in @ : e.depends_on # name /\ e.parent # name},
                  !.tasks = @ \ {name},
                  !.status[name] = "Open",
                  !.start_date[name] = NoDate,
                  !.due_date[name] = NoDate,
                  !.is_blocked[name] = FALSE,
                  !.task_group[name] = "",
                  !.depends_on_group[name] = "",
                  !.sched[name] = "Standard",
                  !.sort_order[name] = 0,
                  !.parent_task[name] = NoTask])
         /\ last' = Result("delete_task", name, TRUE, <<>>)
         /\ UNCHANGED Env

-----------------------------------------------------------------------------
(* update_task(name, data); data is a record with any of the fields          *)
(* status, start_date, due_date, task_group, depends_on_group, parent_task   *)

Has(data, field) == field \in DOMAIN data
Get(data, field, default) == IF field \in DOMAIN data THEN data[field] ELSE default

(* the Hammock check raises inside its try block *)
HammockCheckRaises(d, name, updates) ==
    /\ (Has(updates, "start_date") \/ Has(updates, "due_date"))
    /\ d.sched[name] = "Hammock"

(* "except Exception" around the Hammock check catches what frappe.throw    *)
(* raises (frappe.ValidationError), logs it and goes on                     *)
HammockCheckCaught == TRUE

(* the request is rejected by the Hammock check *)
HammockRejects(d, name, updates) ==
    HammockCheckRaises(d, name, updates) /\ ~HammockCheckCaught

(* the date and group validations of update_task raise *)
UpdateTaskValidationFails(d, name, updates) ==
    LET new_start == Get(updates, "start_date", d.start_date[name])
        new_due == Get(updates, "due_date", d.due_date[name])
        new_dog == Get(updates, "depends_on_group", "")
        current_tg == Get(updates, "task_group", d.task_group[name])
    IN \/ (new_start # NoDate /\ new_due # NoDate /\ new_start > new_due)
       \/ (new_dog # "" /\ current_tg # "" /\ new_dog = current_tg)

(* the loop of set_value calls over the fields of updates *)
RECURSIVE WriteFields(_, _, _, _)
WriteFields(d, name, updates, fields) ==
    IF fields = {} THEN d
    ELSE LET f == CHOOSE x \in fields : TRUE
         IN WriteFields(SetField(d, f, name, updates[f]), name, updates, fields \ {f})

(* the updates of update_task up to its frappe.db.commit() *)
UpdateTaskWrites(d, name, updates, order) ==
    LET d1 == WriteFields(d, name, updates, DOMAIN updates)
        d2 == IF Has(updates, "depends_on_group") \/ Has(updates, "status")
              THEN SetField(d1, "is_blocked", name, UpdateBlockedStatus(d1, name))
              ELSE d1
    IN IF Has(updates, "status") THEN UpdateDependentTasks(d2, name, order) ELSE d2

UpdateTask(name, updates, fail) ==
    IF name \notin tasks \/ HammockRejects(DB, name, updates)
    THEN Rejected("update_task", name, <<updates>>)
    ELSE IF DOMAIN updates = {}
    THEN /\ Commit(DB)
         /\ last' = Result("update_task", name, TRUE, <<updates>>)
         /\ UNCHANGED Env
    ELSE IF UpdateTaskValidationFails(DB, name, updates)
    THEN Rejected("update_task", name, <<updates>>)
    ELSE \E order \in Perms(DependentsOf(WriteFields(DB, name, updates, DOMAIN updates), name)) :
           LET d3 == UpdateTaskWrites(DB, name, updates, order)
               dates_changed == Has(updates, "start_date") \/ Has(updates, "due_date")
               r == IF dates_changed
                    THEN RescheduleDependents(d3, name, fail)
                    ELSE [db |-> d3, ok |-> TRUE, affected |-> <<>>]
               d4 == IF /\ r.ok
                        /\ Has(updates, "status")
                        /\ updates["status"] = "Completed"
                        /\ GetProjectDependencyMode # "Off"
                     THEN AdvanceSuccessorsOnCompletion(r.db, name)
                     ELSE r.db
           IN /\ InRange(d4)
              /\ Commit(d4)
              /\ last' = Result("update_task", name, r.ok, <<updates>>)
              /\ UNCHANGED Env

-----------------------------------------------------------------------------
(* apply_cascade(task_name, new_start_date, new_end_date, changes);          *)
(* fail: the number of the set_value call that raises, 0 if none does        *)

(* how far a batch got: 0 all writes made, 1 the first write raised, 2 a    *)
(* later write raised                                                        *)
BatchProgress(fail) == IF fail <= 1 THEN fail ELSE 2

ApplyCascade(task_name, new_start_date, new_end_date, changes, fail) ==
    IF task_name \notin tasks
    THEN Rejected("apply_cascade", task_name, <<BatchProgress(fail)>>)
    ELSE LET changes_list == ChangesList(DB, task_name, new_start_date, new_end_date, changes)
             writes == CascadeWrites(task_name, new_start_date, new_end_date, changes_list)
             d1 == RunBatch(DB, writes, fail)
         IN /\ fail <= Len(writes)
            /\ InRange(d1)
            /\ Commit(d1)
            /\ last' = Result("apply_cascade", task_name, fail = 0, <<BatchProgress(fail)>>)
            /\ UNCHANGED Env

(* reschedule_dependents(task_name, old_start_date, old_end_date): the two  *)
(* old dates are not read                                                   *)
RescheduleDependentsCall(task_name, fail) ==
    IF task_name \notin tasks
    THEN Rejected("reschedule_dependents", task_name, <<fail>>)
    ELSE LET r == RescheduleDependents(DB, task_name, fail)
         IN /\ InRange(r.db)
            /\ Commit(r.db)
            /\ last' = Result("reschedule_dependents", task_name, r.ok, <<fail>>)
            /\ UNCHANGED Env

(* a day passes *)
Tick ==
    /\ today < MaxDay
    /\ today' = today + 1
    /\ last' = Result("tick", 0, TRUE, <<>>)
    /\ UNCHANGED <<tasks, status, start_date, due_date, is_blocked, task_group,
                   depends_on_group, sched, edges, sort_order, parent_task,
                   ms_sort_order, notified,
                   ms_due_date, mode, project_start, project_end, template, created>>

-----------------------------------------------------------------------------
(* Initial states *)

(* what every initial state shares: the tasks exist, unordered, with no     *)
(* notification sent and no request made yet                                *)
InitCommon ==
    /\ tasks = TaskIds
    /\ sort_order = [t \in TaskIds |-> 0]
    /\ parent_task = [t \in TaskIds |-> NoTask]
    /\ ms_sort_order = [m \in MsIds |-> 0]
    /\ ms_due_date = [m \in MsIds |-> NoDate]
    /\ notified = {}
    /\ template = <<>>
    /\ created = NoProject
    /\ last = Result("init", 0, TRUE, <<>>)

(* freshly created tasks without dates, groups or dependencies *)
InitGraph ==
    /\ InitCommon
    /\ status = [t \in TaskIds |-> "Open"]
    /\ start_date = [t \in TaskIds |-> NoDate]
    /\ due_date = [t \in TaskIds |-> NoDate]
    /\ is_blocked = [t \in TaskIds |-> FALSE]
    /\ task_group = [t \in TaskIds |-> ""]
    /\ depends_on_group = [t \in TaskIds |-> ""]
    /\ sched = [t \in TaskIds |-> "Standard"]
    /\ edges = {}
    /\ mode = "Off"
    /\ project_start = NoDate
    /\ project_end = NoDate
    /\ today = 0

-----------------------------------------------------------------------------
(* The dependency graph and the stored blocked flag *)

GraphStatuses == {"Open", "Completed"}
GraphTypes == {FS, SS}

NextGraph ==
    \/ \E t, dep \in TaskIds, ty \in GraphTypes :
          AddTaskDependency(t, dep, ty, 0)
    \/ \E t, dep \in TaskIds : RemoveTaskDependency(t, dep)
    \/ \E row \in edges, ty \in GraphTypes : UpdateTaskDependency(row, ty, 0)
    \/ \E t \in TaskIds, st \in GraphStatuses : UpdateTaskStatus(t, st)
    \/ \E t \in TaskIds, st \in GraphStatuses : UpdateTask(t, [status |-> st], 0)
    \/ \E names \in SUBSET TaskIds, st \in GraphStatuses : BulkUpdateStatus(names, st)
    \/ \E t \in TaskIds : DeleteTask(t)
    \/ \E t \in TaskIds : RescheduleDependentsCall(t, 0)

SpecGraph == InitGraph /\ [][NextGraph]_vars

-----------------------------------------------------------------------------
(* Cascade: date changes along a chain of dependencies *)

CascadeShift == 4
FreshDay == 8

(* what update_blocked_status reads of the database *)
StoredRows ==
    [tasks |-> tasks, status |-> status, edges |-> edges,
     task_group |-> task_group, depends_on_group |-> depends_on_group]

(* the chain A(5d) -> B(FS, lag 0, 3d) -> C(lag 2, 2d) in a Strict project; *)
(* B may lack a due date; the flags are those a save of each task has       *)
(* stored                                                                    *)
InitCascade ==
    /\ InitCommon
    /\ status = [t \in TaskIds |-> "Open"]
    /\ start_date = [t \in TaskIds |->
                       IF t = 1 THEN 0 ELSE IF t = 2 THEN 5 ELSE IF t = 3 THEN 10 ELSE NoDate]
    /\ \E due2 \in {7, NoDate} :
          due_date = [t \in TaskIds |->
                        IF t = 1 THEN 4 ELSE IF t = 2 THEN due2 ELSE IF t = 3 THEN 11 ELSE NoDate]
    /\ task_group = [t \in TaskIds |-> ""]
    /\ depends_on_group = [t \in TaskIds |-> ""]
    /\ sched = [t \in TaskIds |-> "Standard"]
    /\ edges = {Row(2, 1, FS, 0), Row(3, 2, FS, 2)}
    /\ is_blocked = [t \in TaskIds |-> UpdateBlockedStatus(StoredRows, t)]
    /\ mode = "Strict"
    /\ project_start = 0
    /\ project_end = MaxDay
    /\ today = 0

(* the dates a request may ask for instead of the stored date old *)
NewDates(old) == IF old = NoDate THEN {} ELSE {old + CascadeShift}

(* the new_start_date and new_end_date a cascade request may carry: none,   *)
(* the stored date moved, or an end date for a task that has none           *)
StartInputs(t) == {NoDate} \cup NewDates(start_date[t])
EndInputs(t) == {NoDate} \cup (IF due_date[t] = NoDate THEN {FreshDay} ELSE NewDates(due_date[t]))

(* the change lists a client may send: none, or a preview it asked for      *)
(* earlier, for any task                                                    *)
ClientChanges ==
    {<<>>} \cup UNION {{PreviewCascade(DB, u, NoDate, e) : e \in NewDates(due_date[u])} :
                         u \in tasks}

(* the write of a batch that raises: none (0), or one of the first MaxFail *)
FailPoints == 0..MaxFail

NextCascade ==
    \/ \E t \in TaskIds : \E ns \in StartInputs(t), ne \in EndInputs(t),
                              ch \in ClientChanges, fail \in FailPoints :
          ApplyCascade(t, ns, ne, ch, fail)
    \/ \E t \in TaskIds : \E ns \in NewDates(start_date[t]) :
          UpdateTask(t, [start_date |-> ns], 0)
    \/ \E t \in TaskIds : \E ne \in NewDates(due_date[t]) :
          UpdateTask(t, [due_date |-> ne], 0)
    \/ \E t \in TaskIds : RescheduleDependentsCall(t, 0)

SpecCascade == InitCascade /\ [][NextCascade]_vars

-----------------------------------------------------------------------------
(* Properties of the dependency graph *)

(* a path of depends-on rows leads from a to b *)
RECURSIVE Reaches(_, _, _, _)
Reaches(E, a, b, n) ==
    IF n = 0 THEN FALSE
    ELSE \E e \in E : e.parent = a /\ (e.depends_on = b \/ Reaches(E, e.depends_on, b, n - 1))

TransitivelyDependsOn(E, a, b) == Reaches(E, a, b, NumTasks)

(* C1: add_task_dependency(A, B) for existing tasks A # B without a row     *)
(* A -> B fails exactly if B already depends transitively on A; a failed    *)
(* call writes no row, a successful one stores the row.                     *)
C1_AddFailsIffCycle ==
    [][\A a, b \in TaskIds :
         (/\ last'.op = "add_task_dependency"
          /\ last'.task = a
          /\ last'.args = <<b>>
          /\ a # b /\ a \in tasks /\ b \in tasks
          /\ ~\E e \in edges : e.parent = a /\ e.depends_on = b)
         => /\ (~last'.ok) <=> TransitivelyDependsOn(edges, b, a)
            /\ ~last'.ok => edges' = edges
            /\ last'.ok => \E e \in edges' : e.parent = a /\ e.depends_on = b]_vars

(* C2: the stored dependency graph has no cycle and no row from a task to   *)
(* itself.                                                                  *)
C2_GraphAcyclic ==
    \A t \in TaskIds : ~TransitivelyDependsOn(edges, t, t)

(* C3: the stored is_blocked flag of every task equals the blocked          *)
(* predicate computed from the current state.                               *)
C3_BlockedFlagMatches ==
    \A t \in tasks : is_blocked[t] = UpdateBlockedStatus(DB, t)

-----------------------------------------------------------------------------
(* Properties of the cascade *)

(* t depends on u through a chain of Finish-to-Start rows *)
FSRows == {e \in edges : e.dependency_type = FS}
FSSuccessors(u) == {t \in tasks : TransitivelyDependsOn(FSRows, t, u)}

(* C4: in a Strict project, an update_task that moves a task's due date (or, *)
(* the due date staying, its start date) by d days shifts the start and due  *)
(* date of every task of its Finish-to-Start chain by d and recomputes the   *)
(* stored flag of the shifted tasks.                                         *)
C4_StrictUpdateCascades ==
    [][\A t \in TaskIds :
         LET d == IF due_date[t] # NoDate /\ due_date'[t] # NoDate
                     /\ due_date'[t] # due_date[t]
                  THEN due_date'[t] - due_date[t]
                  ELSE IF start_date[t] # NoDate /\ start_date'[t] # NoDate
                  THEN start_date'[t] - start_date[t]
                  ELSE 0
         IN (/\ last'.op = "update_task"
             /\ last'.task = t
             /\ last'.ok
             /\ mode = "Strict"
             /\ d # 0)
            => \A u \in FSSuccessors(t) \ {t} :
                 /\ start_date[u] # NoDate => start_date'[u] = start_date[u] + d
                 /\ due_date[u] # NoDate => due_date'[u] = due_date[u] + d
                 /\ is_blocked'[u] = UpdateBlockedStatus(DB, u)]_vars

(* the shift as specified: the change of the end if an end is given and     *)
(* an old end exists, else the change of the start                          *)
SpecifiedShift(t, ns, ne) ==
    IF ne # NoDate /\ due_date[t] # NoDate THEN ne - due_date[t]
    ELSE IF ns # NoDate /\ start_date[t] # NoDate THEN ns - start_date[t]
    ELSE 0

(* the chain A(5d) -> B(FS, lag 0, 3d) -> C(FS, lag 2, 2d) *)
ChainABC ==
    /\ edges = {Row(2, 1, FS, 0), Row(3, 2, FS, 2)}
    /\ {1, 2, 3} \subseteq tasks
    /\ \A t \in {1, 2, 3} : start_date[t] # NoDate /\ due_date[t] # NoDate
    /\ due_date[1] - start_date[1] + 1 = 5
    /\ due_date[2] - start_date[2] + 1 = 3
    /\ due_date[3] - start_date[3] + 1 = 2

(* C5: every entry of preview_cascade carries the flat shift of the root,   *)
(* new_start = old_start + shift and new_end = old_end + shift, whatever    *)
(* the lag of its row; on the chain A(5d) -> B(FS, lag 0, 3d) ->            *)
(* C(FS, lag 2, 2d), moving A's end by +4 days lists B and C with           *)
(* new_start = old_start + 4.                                               *)
C5_PreviewFlatShift ==
    /\ \A t \in tasks :
         \A ns \in StartInputs(t), ne \in EndInputs(t) :
            LET affected == PreviewCascade(DB, t, ns, ne)
                shift == SpecifiedShift(t, ns, ne)
            IN \A i \in DOMAIN affected :
                 LET u == affected[i].task_id
                 IN /\ affected[i].old_value = start_date[u]
                    /\ affected[i].old_end_date = due_date[u]
                    /\ start_date[u] # NoDate => affected[i].new_value = start_date[u] + shift
                    /\ due_date[u] # NoDate => affected[i].new_end_date = due_date[u] + shift
    /\ ChainABC =>
         LET affected == PreviewCascade(DB, 1, NoDate, due_date[1] + 4)
         IN /\ {affected[i].task_id : i \in DOMAIN affected} = {2, 3}
            /\ \A i \in DOMAIN affected :
                 affected[i].new_value = start_date[affected[i].task_id] + 4

(* the chain is stored and the preview of A's end + 4 lists C, whose row     *)
(* has lag 2                                                                 *)
C5_Witness ==
    /\ ChainABC
    /\ \E i \in DOMAIN PreviewCascade(DB, 1, NoDate, due_date[1] + 4) :
         /\ PreviewCascade(DB, 1, NoDate, due_date[1] + 4)[i].task_id = 3
         /\ PreviewCascade(DB, 1, NoDate, due_date[1] + 4)[i].lag_days = 2

(* C6: an apply_cascade in which a write raises leaves every task with the  *)
(* dates (and every other stored field) it had before the call, and the     *)
(* error reaches the caller.                                                *)
C6_ApplyCascadeAtomic ==
    [][last'.op = "apply_cascade" =>
         /\ last'.args # <<0>> => ~last'.ok
         /\ ~last'.ok => /\ start_date' = start_date
                         /\ due_date' = due_date
                         /\ UNCHANGED <<tasks, status, is_blocked, edges>>]_vars

(* an apply_cascade of a task with dependents failed after a write of the   *)
(* batch had been made                                                      *)
C6_Witness ==
    /\ last.op = "apply_cascade"
    /\ ~last.ok
    /\ last.args = <<2>>
    /\ DependentRows(DB, last.task) # {}

-----------------------------------------------------------------------------
(* Hammock tasks *)

(* the chain A -> B -> C (FS, lags 0 and 2) with B a Hammock task whose     *)
(* dates are the ones recalculate_hammock_dates derives from A and C        *)
InitHammock ==
    /\ InitCommon
    /\ status = [t \in TaskIds |-> "Open"]
    /\ start_date = [t \in TaskIds |->
                       IF t = 1 THEN 0 ELSE IF t = 2 THEN 5 ELSE IF t = 3 THEN 10 ELSE NoDate]
    /\ due_date = [t \in TaskIds |->
                     IF t = 1 THEN 4 ELSE IF t = 2 THEN 7 ELSE IF t = 3 THEN 11 ELSE NoDate]
    /\ task_group = [t \in TaskIds |-> ""]
    /\ depends_on_group = [t \in TaskIds |-> ""]
    /\ sched = [t \in TaskIds |-> IF t = 2 THEN "Hammock" ELSE "Standard"]
    /\ edges = {Row(2, 1, FS, 0), Row(3, 2, FS, 2)}
    /\ is_blocked = [t \in TaskIds |-> UpdateBlockedStatus(StoredRows, t)]
    /\ mode \in {"Off", "Flexible"}
    /\ project_start = 0
    /\ project_end = MaxDay
    /\ today = 0

NextHammock ==
    \/ \E t \in TaskIds : \E ns \in NewDates(start_date[t]) :
          UpdateTask(t, [start_date |-> ns], 0)
    \/ \E t \in TaskIds : \E ne \in NewDates(due_date[t]) :
          UpdateTask(t, [due_date |-> ne], 0)
    \/ \E t \in TaskIds, st \in GraphStatuses : UpdateTaskStatus(t, st)
    \/ \E t \in TaskIds, st \in GraphStatuses : UpdateTask(t, [status |-> st], 0)

SpecHammock == InitHammock /\ [][NextHammock]_vars

(* C9: update_task with start_date or due_date for a Hammock task is        *)
(* rejected with a validation error and leaves the task's stored dates      *)
(* unchanged.                                                               *)
C9_HammockDatesNotSettable ==
    [][\A t \in TaskIds :
         (/\ last'.op = "update_task"
          /\ last'.task = t
          /\ t \in tasks
          /\ sched[t] = "Hammock"
          /\ (Has(last'.args[1], "start_date") \/ Has(last'.args[1], "due_date")))
         => /\ ~last'.ok
            /\ start_date'[t] = start_date[t]
            /\ due_date'[t] = due_date[t]]_vars


-----------------------------------------------------------------------------
(* get_critical_path (api/project.py) *)

(* the tasks loaded: status not in Completed, Cancelled *)
ActiveTasks(d) == {t \in d.tasks : d.status[t] \notin Terminal}

(* task_map[t].duration *)
DurationBetween(d, t) ==
    IF d.start_date[t] # NoDate /\ d.due_date[t] # NoDate
    THEN Max2(1, d.due_date[t] - d.start_date[t])
    ELSE 1
Duration(d, t) ==
    IF d.start_date[t] # NoDate /\ d.due_date[t] # NoDate
    THEN Max2(1, (d.due_date[t] - d.start_date[t]) + 1)
    ELSE 1

(* get_project_dependencies: the dependency rows joined to their two tasks *)
GetProjectDependencies(d) ==
    RowSeq({e \in d.edges : e.parent \in d.tasks /\ e.depends_on \in d.tasks})

(* the rows kept for the adjacency lists: Finish to Start, both ends active *)
CPMRows(d) ==
    SelectSeq(GetProjectDependencies(d),
              LAMBDA e : /\ e.dependency_type = FS
                         /\ e.depends_on \in ActiveTasks(d)
                         /\ e.parent \in ActiveTasks(d))

(* predecessors[name] and successors[name] *)
Predecessors(rows, name) == SelectSeq(rows, LAMBDA e : e.parent = name)
Successors(rows, name) == SelectSeq(rows, LAMBDA e : e.depends_on = name)

(* the inner loop of Kahn's algorithm over the successors of the popped node *)
RECURSIVE DecrementSuccessors(_, _, _)
DecrementSuccessors(succs, in_degree, queue) ==
    IF succs = <<>> THEN [in_degree |-> in_degree, queue |-> queue]
    ELSE LET succ == Head(succs).parent
             deg == [in_degree EXCEPT ![succ] = @ - 1]
         IN DecrementSuccessors(Tail(succs), deg,
                                IF deg[succ] = 0 THEN Append(queue, succ) ELSE queue)

(* while queue: node = queue.pop(0); topo_order.append(node); ... *)
RECURSIVE KahnLoop(_, _, _, _)
KahnLoop(rows, in_degree, queue, topo_order) ==
    IF queue = <<>> THEN topo_order
    ELSE LET node == Head(queue)
             r == DecrementSuccessors(Successors(rows, node), in_degree, Tail(queue))
         IN KahnLoop(rows, r.in_degree, r.queue, Append(topo_order, node))

(* topo_order; names is task_names in the order the set is iterated; the    *)
(* tasks Kahn's algorithm never reaches (those on or behind a cycle) follow  *)
TopoOrderSortedOnly(rows, names) ==
    LET in_degree == [n \in {names[i] : i \in DOMAIN names} |-> Len(Predecessors(rows, n))]
        queue == SelectSeq(names, LAMBDA n : in_degree[n] = 0)
    IN KahnLoop(rows, in_degree, queue, <<>>)
TopoOrder(rows, names) ==
    LET in_degree == [n \in {names[i] : i \in DOMAIN names} |-> Len(Predecessors(rows, n))]
        queue == SelectSeq(names, LAMBDA n : in_degree[n] = 0)
        sorted == KahnLoop(rows, in_degree, queue, <<>>)
        remaining == SelectSeq(names, LAMBDA n : \A i \in DOMAIN sorted : sorted[i] # n)
    IN sorted \o remaining

(* date_to_day: the offset of a date from the project's start, 0 for none *)
DateToDay(x) == IF x = NoDate THEN 0 ELSE x - project_start

(* the forward pass: Early Start and Early Finish along order *)
RECURSIVE ForwardPass(_, _, _, _, _)
ForwardPass(d, rows, order, es, ef) ==
    IF order = <<>> THEN [es |-> es, ef |-> ef]
    ELSE LET name == Head(order)
             preds == Predecessors(rows, name)
             known == {i \in DOMAIN preds : preds[i].depends_on \in DOMAIN ef}
             start == IF preds # <<>>
                      THEN IF known # {}
                           THEN SetMax({ef[preds[i].depends_on] + preds[i].lag_days : i \in known})
                           ELSE DateToDay(d.start_date[name])
                      ELSE IF d.start_date[name] # NoDate
                           THEN DateToDay(d.start_date[name])
                           ELSE 0
         IN ForwardPass(d, rows, Tail(order),
                        (name :> start) @@ es,
                        (name :> start + Duration(d, name)) @@ ef)

(* the backward pass: Late Finish and Late Start along order (reversed      *)
(* topo_order)                                                              *)
RECURSIVE BackwardPass(_, _, _, _, _)
BackwardPass(d, rows, order, lf, ls) ==
    IF order = <<>> THEN [lf |-> lf, ls |-> ls]
    ELSE LET name == Head(order)
             succs == Successors(rows, name)
             known == {i \in DOMAIN succs : succs[i].parent \in DOMAIN ls}
             finish == IF succs # <<>> /\ known # {}
                       THEN SetMin({ls[succs[i].parent] - succs[i].lag_days : i \in known})
                       ELSE DateToDay(project_end)
         IN BackwardPass(d, rows, Tail(order),
                         (name :> finish) @@ lf,
                         (name :> finish - Duration(d, name)) @@ ls)

Reversed(s) == [i \in 1..Len(s) |-> s[Len(s) + 1 - i]]

NoResult == [critical_tasks |-> <<>>, task_floats |-> [n \in {} |-> 0]]

(* get_critical_path(project_name), the active tasks iterated in the order  *)
(* names                                                                     *)
GetCriticalPath(d, names) ==
    IF project_start = NoDate \/ project_end = NoDate \/ ActiveTasks(d) = {}
    THEN NoResult
    ELSE LET rows == CPMRows(d)
             topo_order == TopoOrder(rows, names)
             fw == ForwardPass(d, rows, topo_order, [n \in {} |-> 0], [n \in {} |-> 0])
             bw == BackwardPass(d, rows, Reversed(topo_order),
                                [n \in {} |-> 0], [n \in {} |-> 0])
             task_floats == [n \in {topo_order[i] : i \in DOMAIN topo_order} |->
                               (IF n \in DOMAIN bw.ls THEN bw.ls[n] ELSE 0)
                               - (IF n \in DOMAIN fw.es THEN fw.es[n] ELSE 0)]
         IN [critical_tasks |-> SelectSeq(topo_order, LAMBDA n : task_floats[n] <= 0),
             task_floats |-> task_floats]

(* the request: it reads and writes nothing *)
GetCriticalPathCall(names) ==
    /\ last' = Result("get_critical_path", 0, TRUE, <<GetCriticalPath(DB, names)>>)
    /\ notified' = {}
    /\ UNCHANGED <<tasks, status, start_date, due_date, is_blocked, task_group,
                   depends_on_group, sched, edges, sort_order, parent_task,
                   ms_sort_order>>
    /\ UNCHANGED Env

-----------------------------------------------------------------------------
(* Critical path: a chain of tasks inside the project's window *)

MaxDuration == 2
MaxSlack == 1

(* the day task t of a chain starts when the tasks before it have the       *)
(* durations dur and nothing lies between them                               *)
RECURSIVE ChainStart(_, _)
ChainStart(dur, t) == IF t = 1 THEN 0 ELSE ChainStart(dur, t - 1) + dur[t - 1]

(* the durations of the tasks of a chain: 1..MaxDuration in turn, from any  *)
(* of them on                                                                *)
ChainDurations ==
    {[t \in TaskIds |-> 1 + ((t + k) % MaxDuration)] : k \in 0..(MaxDuration - 1)}

(* the chain 1 <- 2 <- ... of open tasks (FS, lag 0), each starting the day *)
(* after its predecessor is due, in a project that starts with the chain    *)
(* and ends slack days after it                                              *)
InitCPM ==
    /\ InitCommon
    /\ status = [t \in TaskIds |-> "Open"]
    /\ \E dur \in ChainDurations, slack \in 0..MaxSlack :
          /\ start_date = [t \in TaskIds |-> ChainStart(dur, t)]
          /\ due_date = [t \in TaskIds |-> ChainStart(dur, t) + dur[t] - 1]
          /\ project_end = ChainStart(dur, NumTasks) + dur[NumTasks] - 1 + slack
    /\ task_group = [t \in TaskIds |-> ""]
    /\ depends_on_group = [t \in TaskIds |-> ""]
    /\ sched = [t \in TaskIds |-> "Standard"]
    /\ edges = {Row(t, t - 1, FS, 0) : t \in TaskIds \ {1}}
    /\ is_blocked = [t \in TaskIds |-> UpdateBlockedStatus(StoredRows, t)]
    /\ mode = "Off"
    /\ project_start = 0
    /\ today = 0

NextCPM ==
    \/ \E names \in Perms(ActiveTasks(DB)) : GetCriticalPathCall(names)
    \/ \E t \in TaskIds, st \in {"Open", "Completed"} : UpdateTaskStatus(t, st)
    \/ \E t, dep \in TaskIds : RemoveTaskDependency(t, dep)

SpecCPM == InitCPM /\ [][NextCPM]_vars

(* tasks 1, 2, 3 form a chain A -> B -> C of non-terminal tasks (FS, lag 0) *)
(* that spans the whole project window                                      *)
FullWindowChain ==
    /\ {1, 2, 3} \subseteq ActiveTasks(DB)
    /\ {e \in edges : e.parent \in {1, 2, 3}} = {Row(2, 1, FS, 0), Row(3, 2, FS, 0)}
    /\ {e \in edges : e.depends_on \in {1, 2, 3}} \subseteq {Row(2, 1, FS, 0), Row(3, 2, FS, 0)}
    /\ start_date[1] = project_start
    /\ start_date[2] = due_date[1] + 1
    /\ start_date[3] = due_date[2] + 1
    /\ due_date[3] = project_end

(* C7: for a chain A -> B -> C (FS, lag 0) of non-terminal tasks spanning   *)
(* the full project window, get_critical_path returns float 0 for each of   *)
(* the three and lists all three in critical_tasks.                         *)
C7_FullWindowChainZeroFloat ==
    (last.op = "get_critical_path" /\ FullWindowChain) =>
        LET r == last.args[1]
        IN /\ \A t \in {1, 2, 3} : r.task_floats[t] = 0
           /\ \A t \in {1, 2, 3} : \E i \in DOMAIN r.critical_tasks : r.critical_tasks[i] = t


-----------------------------------------------------------------------------
(* Completion: successors advance when a predecessor is completed *)

MaxToday == 3
AdvanceStatuses == {"Open", "Completed"}

(* day 0 is 2026-01-09. A = [day 0, day 1] (due 2026-01-10) or without a    *)
(* due date; B depends on A (FS, lag 1) and is planned for [day 6, day 8]   *)
(* or has no start date; C = [day 9, day 10] depends on A (FS, lag 0) and   *)
(* on B (FS, lag MaxLag); the flags are those a save of each task has       *)
(* stored                                                                    *)
InitAdvance ==
    /\ InitCommon
    /\ status = [t \in TaskIds |-> "Open"]
    /\ \E start2 \in {6, NoDate} :
          start_date = [t \in TaskIds |->
                          IF t = 1 THEN 0 ELSE IF t = 2 THEN start2
                          ELSE IF t = 3 THEN 9 ELSE NoDate]
    /\ \E due1 \in {1, NoDate} :
          due_date = [t \in TaskIds |->
                        IF t = 1 THEN due1 ELSE IF t = 2 THEN 8
                        ELSE IF t = 3 THEN 10 ELSE NoDate]
    /\ task_group = [t \in TaskIds |-> ""]
    /\ depends_on_group = [t \in TaskIds |-> ""]
    /\ sched = [t \in TaskIds |-> "Standard"]
    /\ edges = {Row(2, 1, FS, 1), Row(3, 1, FS, 0), Row(3, 2, FS, MaxLag)}
    /\ is_blocked = [t \in TaskIds |-> UpdateBlockedStatus(StoredRows, t)]
    /\ mode \in {"Off", "Flexible", "Strict"}
    /\ project_start = 0
    /\ project_end = MaxDay
    /\ today = 0

(* the clock passes midnight, up to day MaxToday *)
NextDay == today < MaxToday /\ Tick

NextAdvance ==
    \/ \E t \in TaskIds, st \in AdvanceStatuses : UpdateTaskStatus(t, st)
    \/ \E t \in TaskIds : UpdateTask(t, [status |-> "Completed"], 0)
    \/ \E t \in TaskIds : BulkUpdateStatus({t}, "Completed")
    \/ UpdateTaskStatus(3, "Cancelled")
    \/ NextDay

SpecAdvance == InitAdvance /\ [][NextAdvance]_vars

(* the step is a successful update_task_status or update_task that sets    *)
(* the status of task last'.task to Completed                               *)
CompletionStep ==
    /\ last'.op \in {"update_task_status", "update_task"}
    /\ last'.ok
    /\ \/ last'.op = "update_task_status" /\ last'.args[1] = "Completed"
       \/ last'.op = "update_task" /\ last'.args[1].status = "Completed"

(* the step makes some task Completed that was not, by whatever request *)
CompletedBy(t) == status[t] # "Completed" /\ status'[t] = "Completed"

(* after the step, the parent of row e is not terminal and every task it    *)
(* depends on Finish to Start is Completed                                  *)
ReadySuccessor(e) ==
    /\ status'[e.parent] \notin Terminal
    /\ \A f \in edges' :
          (f.parent = e.parent /\ f.dependency_type = FS) => status'[f.depends_on] = "Completed"

(* the dates row e's parent has after the step are those of a start at      *)
(* max(today, due date of t + 1) + lag with the duration kept               *)
AdvancedTo(e, t) ==
    /\ start_date'[e.parent] = Max2(today, due_date[t] + 1) + e.lag_days
    /\ due_date[e.parent] # NoDate /\ start_date[e.parent] # NoDate =>
          due_date'[e.parent] - start_date'[e.parent] = due_date[e.parent] - start_date[e.parent]

-----------------------------------------------------------------------------
(* Display order (api/gantt.py). A sort_order is a float; the model keeps   *)
(* it as a whole number of units of 2^-KeyBits, so key k is the float       *)
(* k / 2^KeyBits, and a request whose result needs a finer unit is not      *)
(* explored.                                                                 *)

KeyBits == 10
KeyUnit == 2 ^ KeyBits

(* _INITIAL_GAP = 1000.0 *)
INITIAL_GAP == 1000 * KeyUnit

(* gap < _MIN_GAP, with _MIN_GAP = 0.001 *)
BelowMinGap(gap) == gap < KeyUnit /\ gap * 1000 < KeyUnit

(* None, for a neighbour's key *)
NoKey == -1

(* an item of the Gantt chart as the client names it; "" and 0 stand for an *)
(* argument that was not sent                                                *)
Ref(type, id) == [item_type |-> type, item_id |-> id]
NoRef == Ref("", 0)

(* frappe.db.exists(_doctype_for(item_type), item_id) *)
ItemExists(d, ref) ==
    \/ ref.item_type = "task" /\ ref.item_id \in d.tasks
    \/ ref.item_type = "milestone" /\ ref.item_id \in MsIds

(* _get_sort_order *)
GetSortOrder(d, ref) ==
    IF ref.item_type = "task" THEN d.sort_order[ref.item_id] ELSE d.ms_sort_order[ref.item_id]

(* frappe.db.set_value(doctype, name, "sort_order", v) *)
SetSortOrder(d, ref, v) ==
    IF ref.item_type = "task"
    THEN SetField(d, "sort_order", ref.item_id, v)
    ELSE SetField(d, "ms_sort_order", ref.item_id, v)

(* a < b for two rows of an ORDER BY, column by column *)
RECURSIVE LexLess(_, _)
LexLess(a, b) ==
    IF a = <<>> THEN FALSE
    ELSE Head(a) < Head(b) \/ (Head(a) = Head(b) /\ LexLess(Tail(a), Tail(b)))

(* the elements of S in ascending order of key[x] (keys are distinct) *)
RECURSIVE SortByKey(_, _)
SortByKey(S, key) ==
    IF S = {} THEN <<>>
    ELSE LET m == CHOOSE x \in S : \A y \in S \ {x} : LexLess(key[x], key[y])
         IN <<m>> \o SortByKey(S \ {m}, key)

(* tasks of the project, order_by sort_order, start_date, due_date, creation *)
TasksByDate(d) ==
    LET ids == SortByKey(d.tasks, [t \in d.tasks |->
                   <<d.sort_order[t], d.start_date[t], d.due_date[t], t>>])
    IN [i \in DOMAIN ids |-> Ref("task", ids[i])]

(* milestones of the project, order_by sort_order, due_date, creation *)
MilestonesByDate(d) ==
    LET ids == SortByKey(MsIds, [m \in MsIds |-> <<d.ms_sort_order[m], ms_due_date[m], m>>])
    IN [i \in DOMAIN ids |-> Ref("milestone", ids[i])]

(* for idx, item in enumerate(items): set sort_order = (idx + 1) * GAP *)
RECURSIVE AssignEvenly(_, _, _)
AssignEvenly(d, items, n) ==
    IF items = <<>> THEN d
    ELSE AssignEvenly(SetSortOrder(d, Head(items), n * INITIAL_GAP), Tail(items), n + 1)

(* _assign_initial_values: only if every item of the list has key 0 *)
AssignInitialValues(d, items) ==
    IF items = <<>> \/ \E i \in DOMAIN items : GetSortOrder(d, items[i]) # 0
    THEN d
    ELSE AssignEvenly(d, items, 1)

(* _initialize_sort_orders: the tasks, then the milestones *)
InitializeSortOrders(d) ==
    LET d1 == AssignInitialValues(d, TasksByDate(d))
    IN AssignInitialValues(d1, MilestonesByDate(d1))

(* a renumbering that numbers the tasks and the milestones apart *)
RenumberAllApart(d) ==
    LET tids == SortByKey(d.tasks, [t \in d.tasks |-> <<d.sort_order[t], t>>])
        mids == SortByKey(MsIds, [m \in MsIds |-> <<d.ms_sort_order[m], m>>])
    IN AssignEvenly(AssignEvenly(d, [i \in DOMAIN tids |-> Ref("task", tids[i])], 1),
                    [i \in DOMAIN mids |-> Ref("milestone", mids[i])], 1)

(* _renumber_all: tasks then milestones, each by sort_order and creation,   *)
(* sorted (stably) by sort_order and numbered from GAP in steps of GAP       *)
RenumberAll(d) ==
    LET tids == SortByKey(d.tasks, [t \in d.tasks |-> <<d.sort_order[t], t>>])
        mids == SortByKey(MsIds, [m \in MsIds |-> <<d.ms_sort_order[m], m>>])
        all_items == [i \in DOMAIN tids |-> Ref("task", tids[i])]
                     \o [i \in DOMAIN mids |-> Ref("milestone", mids[i])]
        pos == SortByKey(DOMAIN all_items,
                         [i \in DOMAIN all_items |-> <<GetSortOrder(d, all_items[i]), i>>])
    IN AssignEvenly(d, [i \in DOMAIN pos |-> all_items[pos[i]]], 1)

(* the key read for a neighbour: None unless its id and type were sent and  *)
(* the row exists                                                            *)
NeighbourSort(d, ref) ==
    IF ref.item_id # 0 /\ ref.item_type # "" /\ ItemExists(d, ref)
    THEN GetSortOrder(d, ref)
    ELSE NoKey

(* a new key that leaves out the midpoint *)
NewSortOrderNoMidpoint(prev_sort, next_sort) ==
    IF prev_sort # NoKey THEN prev_sort + INITIAL_GAP
    ELSE IF next_sort # NoKey THEN next_sort \div 2
    ELSE INITIAL_GAP

(* new_sort_order from the two neighbours' keys *)
NewSortOrder(prev_sort, next_sort) ==
    IF prev_sort # NoKey /\ next_sort # NoKey THEN (prev_sort + next_sort) \div 2
    ELSE IF prev_sort # NoKey THEN prev_sort + INITIAL_GAP
    ELSE IF next_sort # NoKey THEN next_sort \div 2
    ELSE INITIAL_GAP

(* the division by 2.0 in new_sort_order gives a whole number of units *)
Representable(prev_sort, next_sort) ==
    IF prev_sort # NoKey /\ next_sort # NoKey THEN (prev_sort + next_sort) % 2 = 0
    ELSE IF prev_sort = NoKey /\ next_sort # NoKey THEN next_sort % 2 = 0
    ELSE TRUE

(* abs(next_sort - prev_sort) *)
Abs(x) == IF x < 0 THEN 0 - x ELSE x

(* the database and the key reorder_item arrives at before its one write *)
ReorderPlan(d, prev, next) ==
    LET d1 == InitializeSortOrders(d)
        prev_sort == NeighbourSort(d1, prev)
        next_sort == NeighbourSort(d1, next)
        renumber == /\ prev_sort # NoKey
                    /\ next_sort # NoKey
                    /\ BelowMinGap(Abs(next_sort - prev_sort))
        d2 == IF renumber THEN RenumberAll(d1) ELSE d1
        p2 == IF renumber THEN GetSortOrder(d2, prev) ELSE prev_sort
        n2 == IF renumber THEN GetSortOrder(d2, next) ELSE next_sort
    IN [db |-> d2, representable |-> Representable(p2, n2),
        new_sort_order |-> NewSortOrder(p2, n2)]

(* the number of reorder_item requests made so far *)
Moves == IF last.op = "reorder_item" THEN last.args[4] ELSE 0

(* reorder_item(item_id, item_type, project, prev_item_id, next_item_id,    *)
(* prev_item_type, next_item_type)                                          *)
ReorderItem(item, prev, next) ==
    /\ Moves < MaxMoves
    /\ IF ~ItemExists(DB, item)
       THEN Rejected("reorder_item", item.item_id, <<item.item_type, prev, next, Moves + 1>>)
       ELSE LET plan == ReorderPlan(DB, prev, next)
            IN /\ plan.representable
               /\ Commit(SetSortOrder(plan.db, item, plan.new_sort_order))
               /\ last' = Result("reorder_item", item.item_id, TRUE,
                                 <<item.item_type, prev, next, Moves + 1>>)
               /\ UNCHANGED Env


-----------------------------------------------------------------------------
(* Display order: a project's tasks and milestones are dragged around *)

(* the projects a first drag can meet:                                      *)
(*   fresh        no item was ever ordered                                  *)
(*   initialised  the tasks were ordered before the milestones were added   *)
(*   legacy       keys sent by clients with create_task: 10.0, 20.0, ...    *)
(*   tight        midpoint insertions have left the tasks one unit apart;   *)
(*                the last task was deleted                                 *)
OrderScenarios == {"fresh", "initialised", "legacy", "tight"}

TaskSeed(sc, t) ==
    CASE sc = "fresh" -> 0
      [] sc = "initialised" -> t * INITIAL_GAP
      [] sc = "legacy" -> 10 * t * KeyUnit
      [] sc = "tight" -> IF t = NumTasks THEN 0 ELSE INITIAL_GAP + t

MilestoneSeed(sc, m) ==
    CASE sc = "fresh" -> 0
      [] sc = "initialised" -> 0
      [] sc = "legacy" -> 100 * m * KeyUnit
      [] sc = "tight" -> m * INITIAL_GAP

(* the later a task or milestone was created, the earlier its date *)
InitOrder ==
    /\ \E sc \in OrderScenarios :
          /\ tasks = IF sc = "tight" THEN TaskIds \ {NumTasks} ELSE TaskIds
          /\ sort_order = [t \in TaskIds |-> TaskSeed(sc, t)]
          /\ ms_sort_order = [m \in MsIds |-> MilestoneSeed(sc, m)]
    /\ status = [t \in TaskIds |-> "Open"]
    /\ start_date = [t \in TaskIds |-> NumTasks - t]
    /\ due_date = [t \in TaskIds |-> NoDate]
    /\ ms_due_date = [m \in MsIds |-> NumMilestones - m]
    /\ is_blocked = [t \in TaskIds |-> FALSE]
    /\ task_group = [t \in TaskIds |-> ""]
    /\ depends_on_group = [t \in TaskIds |-> ""]
    /\ sched = [t \in TaskIds |-> "Standard"]
    /\ edges = {}
    /\ parent_task = [t \in TaskIds |-> NoTask]
    /\ notified = {}
    /\ template = <<>>
    /\ created = NoProject
    /\ mode = "Off"
    /\ project_start = 0
    /\ project_end = MaxDay
    /\ today = 0
    /\ last = Result("init", 0, TRUE, <<>>)

(* the items a client can name, and the neighbours it can send: none, an    *)
(* item, or an id without its type                                          *)
ItemRefs == {Ref("task", t) : t \in TaskIds} \cup {Ref("milestone", m) : m \in MsIds}
NeighbourRefs == {NoRef, Ref("", 1)} \cup ItemRefs

(* an item is dropped between two other items, or next to one, or alone *)
NextOrder ==
    \E item \in ItemRefs, prev, next \in NeighbourRefs :
        /\ prev # item
        /\ next # item
        /\ prev \in ItemRefs => prev # next
        /\ ReorderItem(item, prev, next)

SpecOrder == InitOrder /\ [][NextOrder]_vars

(* the neighbour was given: id and type sent, and the row exists *)
Given(ref) == ref.item_id # 0 /\ ref.item_type # "" /\ ItemExists(DB, ref)

StoredKey(ref) == GetSortOrder(DB, ref)
StoredKeyAfter(ref) ==
    IF ref.item_type = "task" THEN sort_order'[ref.item_id] ELSE ms_sort_order'[ref.item_id]

(* the moved item's key after the step is the one the four specified cases  *)
(* give for the keys kp and kn of the neighbours                            *)
KeyByCases(item, prev, next, kp, kn) ==
    /\ (Given(prev) /\ Given(next)) => 2 * StoredKeyAfter(item) = kp + kn
    /\ (Given(prev) /\ ~Given(next)) => StoredKeyAfter(item) = kp + 1000 * KeyUnit
    /\ (~Given(prev) /\ Given(next)) => 2 * StoredKeyAfter(item) = kn
    /\ (~Given(prev) /\ ~Given(next)) => StoredKeyAfter(item) = 1000 * KeyUnit

(* no row but the moved item's has another key after the step *)
OnlyMovedWritten(item) ==
    \A r \in ItemRefs \ {item} : StoredKeyAfter(r) = StoredKey(r)

(* the first-time initialization assigns keys: every task of the project,   *)
(* or every milestone, has key 0                                            *)
InitializationFires ==
    \/ tasks # {} /\ \A t \in tasks : sort_order[t] = 0
    \/ \A m \in MsIds : ms_sort_order[m] = 0

(* both neighbours are given and the keys read for them are less than 0.001 *)
(* apart                                                                     *)
PrecisionGuardFires(prev, next) ==
    /\ Given(prev)
    /\ Given(next)
    /\ LET d1 == InitializeSortOrders(DB)
       IN BelowMinGap(Abs(GetSortOrder(d1, next) - GetSortOrder(d1, prev)))

-----------------------------------------------------------------------------
(* Display order: the precision guard *)

(* the items of the project *)
ProjectItems == {r \in ItemRefs : ItemExists(DB, r)}

(* item a comes before item b in the order of the keys in d: by key, a task *)
(* before a milestone of the same key, the older before the younger          *)
KeyOrderBefore(d, a, b) ==
    LexLess(<<GetSortOrder(d, a), IF a.item_type = "task" THEN 0 ELSE 1, a.item_id>>,
            <<GetSortOrder(d, b), IF b.item_type = "task" THEN 0 ELSE 1, b.item_id>>)

(* the position (from 1) of item r in the order of the keys in d *)
KeyRank(d, r) == 1 + Cardinality({a \in ProjectItems : KeyOrderBefore(d, a, r)})

-----------------------------------------------------------------------------
(* create_task(data): the document is built from the allowed fields of      *)
(* data and inserted; insert runs validate and on_update like a save. The   *)
(* new task gets the lowest free id.                                        *)

NewTaskName(d) == SetMin(TaskIds \ d.tasks)

(* frappe.get_doc(task_data): the fields sent, the defaults for the rest *)
NewTaskDoc(d, name, data) ==
    [d EXCEPT !.tasks = @ \cup {name},
              !.status[name] = Get(data, "status", "Open"),
              !.start_date[name] = Get(data, "start_date", NoDate),
              !.due_date[name] = Get(data, "due_date", NoDate),
              !.task_group[name] = Get(data, "task_group", ""),
              !.depends_on_group[name] = Get(data, "depends_on_group", ""),
              !.sort_order[name] = Get(data, "sort_order", 0),
              !.parent_task[name] = Get(data, "parent_task", NoTask),
              !.sched[name] = "Standard",
              !.is_blocked[name] = FALSE]

CreateTask(data) ==
    /\ TaskIds \ tasks # {}
    /\ LET name == NewTaskName(DB)
           d1 == NewTaskDoc(DB, name, data)
       IN IF ValidateFails(d1, name) \/ Get(data, "parent_task", NoTask) \notin tasks \cup {NoTask}
          THEN Rejected("create_task", name, <<data>>)
          ELSE \E order \in Perms(DependentsOf(d1, name)) :
                  /\ Commit(SaveDoc(d1, name, order))
                  /\ last' = Result("create_task", name, TRUE, <<data>>)
                  /\ UNCHANGED Env

-----------------------------------------------------------------------------
(* Groups: tasks are created, put into a group and made to wait for one *)

GroupNames == {"", "Design"}

(* one open task without group; the others are still to be created *)
InitGroup ==
    /\ tasks = {1}
    /\ sort_order = [t \in TaskIds |-> 0]
    /\ parent_task = [t \in TaskIds |-> NoTask]
    /\ ms_sort_order = [m \in MsIds |-> 0]
    /\ ms_due_date = [m \in MsIds |-> NoDate]
    /\ notified = {}
    /\ template = <<>>
    /\ created = NoProject
    /\ last = Result("init", 0, TRUE, <<>>)
    /\ status = [t \in TaskIds |-> "Open"]
    /\ start_date = [t \in TaskIds |-> NoDate]
    /\ due_date = [t \in TaskIds |-> NoDate]
    /\ is_blocked = [t \in TaskIds |-> FALSE]
    /\ task_group = [t \in TaskIds |-> ""]
    /\ depends_on_group = [t \in TaskIds |-> ""]
    /\ sched = [t \in TaskIds |-> "Standard"]
    /\ edges = {}
    /\ mode = "Off"
    /\ project_start = NoDate
    /\ project_end = NoDate
    /\ today = 0

NextGroup ==
    \/ \E g, h \in GroupNames : CreateTask([task_group |-> g, depends_on_group |-> h])
    \/ \E t \in TaskIds, g \in GroupNames : UpdateTask(t, [task_group |-> g], 0)
    \/ \E t \in TaskIds, g \in GroupNames : UpdateTask(t, [depends_on_group |-> g], 0)
    \/ \E t \in TaskIds, g, h \in GroupNames :
          UpdateTask(t, [task_group |-> g, depends_on_group |-> h], 0)
    \/ \E t \in TaskIds, st \in GraphStatuses : UpdateTaskStatus(t, st)
    \/ \E t \in TaskIds, st \in GraphStatuses : UpdateTask(t, [status |-> st], 0)

SpecGroup == InitGroup /\ [][NextGroup]_vars

(* C12: after any sequence of task creations and updates, no task has a     *)
(* depends_on_group equal to its own task_group.                            *)
C12_NoSelfGroupDependency ==
    \A t \in tasks : depends_on_group[t] # "" => depends_on_group[t] # task_group[t]

-----------------------------------------------------------------------------
(* reschedule_dependents under every dependency mode *)

(* dependency_mode of the project; "" is a project without a stored mode *)
DependencyModes == {"", "Off", "Flexible", "Strict"}

(* the chain A(5d) -> B(FS, lag 0, 3d) -> C(lag 2, 2d) of InitCascade in a  *)
(* project of any mode                                                       *)
InitReschedule ==
    /\ InitCommon
    /\ status = [t \in TaskIds |-> "Open"]
    /\ start_date = [t \in TaskIds |->
                       IF t = 1 THEN 0 ELSE IF t = 2 THEN 5 ELSE IF t = 3 THEN 10 ELSE NoDate]
    /\ due_date = [t \in TaskIds |->
                     IF t = 1 THEN 4 ELSE IF t = 2 THEN 7 ELSE IF t = 3 THEN 11 ELSE NoDate]
    /\ task_group = [t \in TaskIds |-> ""]
    /\ depends_on_group = [t \in TaskIds |-> ""]
    /\ sched = [t \in TaskIds |-> "Standard"]
    /\ edges = {Row(2, 1, FS, 0), Row(3, 2, FS, 2)}
    /\ is_blocked = [t \in TaskIds |-> UpdateBlockedStatus(StoredRows, t)]
    /\ mode \in DependencyModes
    /\ project_start = 0
    /\ project_end = MaxDay
    /\ today = 0

NextReschedule ==
    \/ \E t \in TaskIds, fail \in FailPoints : RescheduleDependentsCall(t, fail)
    \/ \E t \in TaskIds : \E ne \in NewDates(due_date[t]) :
          UpdateTask(t, [due_date |-> ne], 0)
    \/ \E t \in TaskIds : BulkUpdateStatus({t}, "Completed")

SpecReschedule == InitReschedule /\ [][NextReschedule]_vars

(* C13: a reschedule_dependents call in a project whose dependency mode is   *)
(* Off or Flexible writes no task: every start_date, due_date and is_blocked *)
(* is the one stored before the call, and the call returns.                  *)
C13_NoWriteInOffOrFlexible ==
    [][(/\ last'.op = "reschedule_dependents"
        /\ GetProjectDependencyMode \in {"Off", "Flexible"})
       => /\ start_date' = start_date
          /\ due_date' = due_date
          /\ is_blocked' = is_blocked
          /\ last'.task \in tasks => last'.ok]_vars

(* a Flexible project after a call for A, whose successor B has dates and a *)
(* stored flag that a recomputation would change                            *)
C13_Witness ==
    /\ last.op = "reschedule_dependents"
    /\ last.ok
    /\ last.task = 1
    /\ mode = "Flexible"
    /\ start_date[2] # NoDate
    /\ Row(2, 1, FS, 0) \in edges
    /\ is_blocked[2] # UpdateBlockedStatus(DB, 2)

(* C14: after a reschedule_dependents call that returned, a second call for *)
(* the same task on the state the first one left has an empty change-set:   *)
(* no updated task and no preview entry.                                    *)
C14_SecondCallEmpty ==
    [][(last'.op = "reschedule_dependents" /\ last'.ok /\ last'.task \in tasks)
       => LET after == DB'
          IN RescheduleDependents(after, last'.task, 0).affected = <<>>]_vars

(* a Strict project after a call for A, which has dates and the successor B *)
C14_Witness ==
    /\ last.op = "reschedule_dependents"
    /\ last.ok
    /\ last.task = 1
    /\ mode = "Strict"
    /\ start_date[1] # NoDate
    /\ due_date[1] # NoDate
    /\ start_date[2] # NoDate
    /\ Row(2, 1, FS, 0) \in edges

(* C15: a request sends the unblock notification for a task exactly if it   *)
(* changes the task's stored is_blocked flag from true to false, whatever   *)
(* caused the change, and sends it once.                                    *)
C15_NotifiedIffUnblocked ==
    [][\A t \in tasks : (is_blocked[t] /\ ~is_blocked'[t]) <=> t \in notified']_vars

(* C16: no stored task has a due_date before its start_date. *)
C16_NoInvertedDateRange ==
    \A t \in tasks :
        (start_date[t] # NoDate /\ due_date[t] # NoDate) => start_date[t] <= due_date[t]

-----------------------------------------------------------------------------
(* The parent_task relation *)

(* a chain of stored parent_task links leads from a up to b *)
RECURSIVE HasAncestor(_, _, _)
HasAncestor(a, b, n) ==
    /\ n > 0
    /\ a \in tasks
    /\ parent_task[a] # NoTask
    /\ (parent_task[a] = b \/ HasAncestor(parent_task[a], b, n - 1))

(* the parents a request may name: none, or any task name *)
ParentInputs == TaskIds \cup {NoTask}

NextParent ==
    \/ \E p \in ParentInputs : CreateTask([parent_task |-> p])
    \/ \E t \in TaskIds, p \in ParentInputs : UpdateTask(t, [parent_task |-> p], 0)
    \/ \E t \in TaskIds, st \in GraphStatuses : UpdateTaskStatus(t, st)
    \/ \E t \in TaskIds : DeleteTask(t)

SpecParent == InitGroup /\ [][NextParent]_vars

(* C17: no task is its own parent or its own ancestor along the stored      *)
(* parent_task links.                                                       *)
C17_ParentTaskAcyclic ==
    \A t \in tasks : ~HasAncestor(t, t, NumTasks)

-----------------------------------------------------------------------------
(* Templates: create_template_from_project and apply_template                *)
(* (orga/api/template.py)                                                    *)

(* dep_type_map.get(dep.dependency_type, "FS") *)
DepTypeMap(dependency_type) ==
    CASE dependency_type = FS -> "FS"
      [] dependency_type = SS -> "SS"
      [] dependency_type = FF -> "FF"
      [] dependency_type = SF -> "SF"
      [] OTHER -> "FS"

(* type_map.get(dep.get("type", "FS"), "Finish to Start") *)
TypeMapAllFS(short) == FS
TypeMap(short) ==
    CASE short = "FS" -> FS
      [] short = "SS" -> SS
      [] short = "FF" -> FF
      [] short = "SF" -> SF
      [] OTHER -> FS

(* the project's tasks, order_by sort_order asc, creation asc *)
TemplateTaskOrder(d) == SortByKey(d.tasks, [t \in d.tasks |-> <<d.sort_order[t], t>>])

(* task_name_to_ref: the task at index idx has ref_id idx (T0, T1, ...);     *)
(* NoRefId for a task that is not in the project                             *)
NoRefId == -1
TaskNameToRef(order, name) ==
    IF \E i \in DOMAIN order : order[i] = name
    THEN (CHOOSE i \in DOMAIN order : order[i] = name) - 1
    ELSE NoRefId

(* the "dependencies" list of a template task *)
TemplateDependencies(d, order, t) ==
    LET rows == SelectSeq(RowSeq(DependsOnRows(d, t)),
                          LAMBDA e : TaskNameToRef(order, e.depends_on) # NoRefId)
    IN [k \in DOMAIN rows |->
          [predecessor_ref |-> TaskNameToRef(order, rows[k].depends_on),
           type |-> DepTypeMap(rows[k].dependency_type),
           lag_days |-> rows[k].lag_days]]

(* template_tasks, without the fields that no dependency reads *)
TemplateTasks(d) ==
    LET order == TemplateTaskOrder(d)
    IN [i \in DOMAIN order |->
          [ref_id |-> TaskNameToRef(order, order[i]),
           sort_order |-> d.sort_order[order[i]],
           dependencies |-> TemplateDependencies(d, order, order[i])]]

(* create_template_from_project(project_name, template_name): the template  *)
(* is stored, the project is only read                                       *)
CreateTemplateFromProject ==
    /\ template' = TemplateTasks(DB)
    /\ last' = Result("create_template_from_project", 0, TRUE, <<>>)
    /\ notified' = {}
    /\ UNCHANGED <<tasks, status, start_date, due_date, is_blocked, task_group,
                   depends_on_group, sched, edges, sort_order, parent_task,
                   ms_sort_order>>
    /\ UNCHANGED <<ms_due_date, mode, project_start, project_end, today, created>>

(* the target project before the call: it has no task *)
EmptyProject ==
    [DB EXCEPT !.tasks = {},
               !.status = [t \in TaskIds |-> "Open"],
               !.start_date = [t \in TaskIds |-> NoDate],
               !.due_date = [t \in TaskIds |-> NoDate],
               !.is_blocked = [t \in TaskIds |-> FALSE],
               !.task_group = [t \in TaskIds |-> ""],
               !.depends_on_group = [t \in TaskIds |-> ""],
               !.sched = [t \in TaskIds |-> "Standard"],
               !.edges = {},
               !.sort_order = [t \in TaskIds |-> 0],
               !.parent_task = [t \in TaskIds |-> NoTask]]

(* phase 2: one task per template task, inserted in template order; the     *)
(* i-th insert gets the name i.  The dates the tasks get are never inverted *)
(* (due = start + duration, duration >= 0) and are left out.                 *)
RECURSIVE InsertTemplateTasks(_, _, _)
InsertTemplateTasks(d, tpl, i) ==
    IF i > Len(tpl) THEN d
    ELSE InsertTemplateTasks([d EXCEPT !.tasks = @ \cup {i},
                                       !.sort_order[i] = tpl[i].sort_order], tpl, i + 1)

(* name_mapping.get(ref): the task created for the template task ref *)
NameMapping(tpl, ref) ==
    IF \E i \in DOMAIN tpl : tpl[i].ref_id = ref
    THEN CHOOSE i \in DOMAIN tpl : tpl[i].ref_id = ref
    ELSE NoTask

(* the rows appended to the depends_on table of task_name *)
AppendedRows(tpl, task_name, deps) ==
    {Row(task_name, NameMapping(tpl, deps[k].predecessor_ref), TypeMap(deps[k].type),
         deps[k].lag_days) :
       k \in {j \in DOMAIN deps : NameMapping(tpl, deps[j].predecessor_ref) # NoTask}}

(* phase 3: the rows of each task are appended and the task is saved; a     *)
(* save that raises ends the request                                         *)
RECURSIVE CreateDependencies(_, _, _)
CreateDependencies(d, tpl, i) ==
    IF i > Len(tpl) THEN [db |-> d, ok |-> TRUE]
    ELSE LET task_name == NameMapping(tpl, tpl[i].ref_id)
             deps == tpl[i].dependencies
             d1 == [d EXCEPT !.edges = @ \cup AppendedRows(tpl, task_name, deps)]
         IN IF task_name = NoTask \/ deps = <<>> THEN CreateDependencies(d, tpl, i + 1)
            ELSE IF ValidateFails(d1, task_name) THEN [db |-> d, ok |-> FALSE]
            ELSE CreateDependencies(
                     SaveDoc(d1, task_name, SortedSeq(DependentsOf(d1, task_name))),
                     tpl, i + 1)

(* apply_template(project_name, template_name) for an empty target project: *)
(* an exception leaves the request without commit, and nothing is created    *)
ApplyTemplate ==
    /\ template # <<>>
    /\ LET r == CreateDependencies(InsertTemplateTasks(EmptyProject, template, 1), template, 1)
       IN /\ created' = IF r.ok THEN [tasks |-> r.db.tasks, edges |-> r.db.edges]
                        ELSE NoProject
          /\ last' = Result("apply_template", 0, r.ok, <<>>)
    /\ notified' = {}
    /\ UNCHANGED <<tasks, status, start_date, due_date, is_blocked, task_group,
                   depends_on_group, sched, edges, sort_order, parent_task,
                   ms_sort_order>>
    /\ UNCHANGED <<ms_due_date, mode, project_start, project_end, today, template>>

(* tasks without dates and dependencies, in creation order or after a        *)
(* reorder_tasks that reversed them                                          *)
InitTemplate ==
    /\ tasks = TaskIds
    /\ \/ sort_order = [t \in TaskIds |-> 0]
       \/ sort_order = [t \in TaskIds |-> (NumTasks + 1 - t) * KeyUnit]
    /\ parent_task = [t \in TaskIds |-> NoTask]
    /\ ms_sort_order = [m \in MsIds |-> 0]
    /\ ms_due_date = [m \in MsIds |-> NoDate]
    /\ notified = {}
    /\ template = <<>>
    /\ created = NoProject
    /\ last = Result("init", 0, TRUE, <<>>)
    /\ status = [t \in TaskIds |-> "Open"]
    /\ start_date = [t \in TaskIds |-> NoDate]
    /\ due_date = [t \in TaskIds |-> NoDate]
    /\ is_blocked = [t \in TaskIds |-> FALSE]
    /\ task_group = [t \in TaskIds |-> ""]
    /\ depends_on_group = [t \in TaskIds |-> ""]
    /\ sched = [t \in TaskIds |-> "Standard"]
    /\ edges = {}
    /\ mode = "Off"
    /\ project_start = NoDate
    /\ project_end = NoDate
    /\ today = 0

(* the dependency rows are edited until the project is exported *)
NextTemplate ==
    \/ /\ template = <<>>
       /\ \E t, dep \in TaskIds, ty \in DepTypes, lag \in Lags :
             AddTaskDependency(t, dep, ty, lag)
    \/ /\ template = <<>>
       /\ \E t, dep \in TaskIds : RemoveTaskDependency(t, dep)
    \/ CreateTemplateFromProject
    \/ ApplyTemplate

SpecTemplate == InitTemplate /\ [][NextTemplate]_vars

(* the new task that stands for the task t of the exported project *)
NewTaskFor(t) == TaskNameToRef(TemplateTaskOrder(DB), t) + 1

(* the template is the export of the project as it is now *)
TemplateIsCurrent == template = TemplateTasks(DB)

(* C18: applying the template exported from a project creates, between the  *)
(* new tasks that stand for its tasks, exactly the project's dependency rows *)
(* with the same dependency type and lag_days, and the created rows contain  *)
(* no cycle.                                                                 *)
C18_TemplateRoundTrip ==
    (last.op = "apply_template" /\ TemplateIsCurrent)
    => /\ last.ok
       /\ created.edges = {Row(NewTaskFor(e.parent), NewTaskFor(e.depends_on),
                               e.dependency_type, e.lag_days) : e \in edges}
       /\ \A t \in TaskIds : ~TransitivelyDependsOn(created.edges, t, t)

-----------------------------------------------------------------------------
(* Cascade over dependency rows of every type *)

(* the chain A -> B (lag 0) -> C (lag 2) of InitCascade with rows of any    *)
(* dependency type                                                           *)
InitTyped ==
    /\ InitCommon
    /\ status = [t \in TaskIds |-> "Open"]
    /\ start_date = [t \in TaskIds |->
                       IF t = 1 THEN 0 ELSE IF t = 2 THEN 5 ELSE IF t = 3 THEN 10 ELSE NoDate]
    /\ due_date = [t \in TaskIds |->
                     IF t = 1 THEN 4 ELSE IF t = 2 THEN 7 ELSE IF t = 3 THEN 11 ELSE NoDate]
    /\ task_group = [t \in TaskIds |-> ""]
    /\ depends_on_group = [t \in TaskIds |-> ""]
    /\ sched = [t \in TaskIds |-> "Standard"]
    /\ \E ty1, ty2 \in DepTypes : edges = {Row(2, 1, ty1, 0), Row(3, 2, ty2, 2)}
    /\ is_blocked = [t \in TaskIds |-> UpdateBlockedStatus(StoredRows, t)]
    /\ mode = "Strict"
    /\ project_start = 0
    /\ project_end = MaxDay
    /\ today = 0

NextTyped ==
    \/ \E t \in TaskIds : \E ns \in StartInputs(t), ne \in EndInputs(t) :
          ApplyCascade(t, ns, ne, <<>>, 0)
    \/ \E row \in edges, ty \in DepTypes : UpdateTaskDependency(row, ty, row.lag_days)

SpecTyped == InitTyped /\ [][NextTyped]_vars

(* C19: every task listed by preview_cascade for a root is reached from the *)
(* root along Finish-to-Start rows; a task reached only through a row of    *)
(* another type is not listed.                                               *)
C19_PreviewOnlyFSSuccessors ==
    \A t \in tasks :
      \A ns \in StartInputs(t), ne \in EndInputs(t) :
         LET affected == PreviewCascade(DB, t, ns, ne)
         IN \A i \in DOMAIN affected : affected[i].task_id \in FSSuccessors(t)

(* the step changes the due_date of a Finish-to-Start predecessor of h or   *)
(* the start_date of a Finish-to-Start successor of h                       *)
NeighbourDateChanged(h) ==
    \/ \E e \in edges : /\ e.parent = h
                        /\ e.dependency_type = FS
                        /\ due_date'[e.depends_on] # due_date[e.depends_on]
    \/ \E e \in edges : /\ e.depends_on = h
                        /\ e.dependency_type = FS
                        /\ start_date'[e.parent] # start_date[e.parent]

(* C20: a request that changes a date of a neighbour of a Hammock task      *)
(* leaves the Hammock task on the interval between its anchors if both      *)
(* resolve and max(predecessor due + 1 + lag) <= min(successor start - 1 -  *)
(* lag), and with its stored dates otherwise.                               *)
C20_HammockFollowsNeighbours ==
    [][\A h \in tasks :
         (sched[h] = "Hammock" /\ h \in tasks' /\ NeighbourDateChanged(h))
         => LET after == DB'
                pred_end == HammockPredEnd(after, h)
                succ_start == HammockSuccStart(after, h)
            IN IF pred_end # NoDate /\ succ_start # NoDate /\ pred_end <= succ_start
               THEN start_date'[h] = pred_end /\ due_date'[h] = succ_start
               ELSE start_date'[h] = start_date[h] /\ due_date'[h] = due_date[h]]_vars

-----------------------------------------------------------------------------
(* The blocked flag a save stores *)

BlockedStatuses == {"Open", "Completed", "Cancelled"}

(* three tasks in a row, 2 depending on 1 and 3 on 2 by rows of any of two  *)
(* types; task 1 may belong to a group and the last task may wait for one   *)
InitBlocked ==
    /\ InitCommon
    /\ status = [t \in TaskIds |-> "Open"]
    /\ start_date = [t \in TaskIds |-> NoDate]
    /\ due_date = [t \in TaskIds |-> NoDate]
    /\ \E g \in GroupNames : task_group = [t \in TaskIds |-> IF t = 1 THEN g ELSE ""]
    /\ \E h \in GroupNames :
          depends_on_group = [t \in TaskIds |-> IF t = NumTasks THEN h ELSE ""]
    /\ sched = [t \in TaskIds |-> "Standard"]
    /\ \E ty1, ty2 \in GraphTypes : edges = {Row(2, 1, ty1, 0), Row(3, 2, ty2, 0)}
    /\ is_blocked = [t \in TaskIds |-> UpdateBlockedStatus(StoredRows, t)]
    /\ mode = "Off"
    /\ project_start = NoDate
    /\ project_end = NoDate
    /\ today = 0

NextBlocked ==
    \/ \E t \in TaskIds, st \in BlockedStatuses : UpdateTaskStatus(t, st)
    \/ \E t \in TaskIds, st \in BlockedStatuses : UpdateTask(t, [status |-> st], 0)
    \/ \E t \in TaskIds, g \in GroupNames : UpdateTask(t, [depends_on_group |-> g], 0)

SpecBlocked == InitBlocked /\ [][NextBlocked]_vars

(* the request ran update_blocked_status for its task and stored the result *)
RecomputesOwnFlag(r) ==
    /\ r.ok
    /\ \/ r.op = "update_task_status"
       \/ r.op = "update_task" /\ (Has(r.args[1], "status") \/ Has(r.args[1], "depends_on_group"))

(* t has a Finish-to-Start predecessor that is not Completed *)
FSPredecessorOpen(E, st, t) ==
    \E e \in E : e.parent = t /\ e.dependency_type = FS /\ st[e.depends_on] # "Completed"

(* t waits for a group of which another task is neither Completed nor Cancelled *)
GroupOpen(T, st, tg, dog, t) ==
    /\ dog[t] # ""
    /\ \E u \in T : u # t /\ tg[u] = dog[t] /\ st[u] # "Completed" /\ st[u] # "Cancelled"

EditedOrDependent(u, t) ==
    \/ u = t
    \/ \E e \in edges' : e.parent = u /\ e.depends_on = t
    \/ /\ depends_on_group'[u] # ""
       /\ depends_on_group'[u] \in {task_group[t], task_group'[t]}

(* C22: after an update_task that sets task_group or depends_on_group, the  *)
(* stored flag of the edited task and of each of its direct dependents is   *)
(* the blocked status recomputed on the new state.                          *)
C22_GroupChangeFansOut ==
    [][(/\ last'.op = "update_task"
        /\ last'.ok
        /\ (Has(last'.args[1], "task_group") \/ Has(last'.args[1], "depends_on_group")))
       => \A u \in tasks' :
            EditedOrDependent(u, last'.task)
            => is_blocked'[u] = (\/ FSPredecessorOpen(edges', status', u)
                                 \/ GroupOpen(tasks', status', task_group',
                                              depends_on_group', u))]_vars

-----------------------------------------------------------------------------
(* Critical path over any small dependency graph *)

(* the rows a graph is drawn from: a later task on an earlier one, or the   *)
(* first task on the last one, which closes a cycle; Finish-to-Start with   *)
(* lag 0 or the largest lag, or Start-to-Start                               *)
PathRows ==
    LET pairs == {<<t, dep>> \in TaskIds \X TaskIds : dep < t \/ (t = 1 /\ dep = NumTasks)}
    IN {Row(p[1], p[2], FS, lag) : p \in pairs, lag \in {0, MaxLag}}
       \cup {Row(p[1], p[2], SS, 0) : p \in pairs}

(* the graphs add_task_dependency can store: at most one row per pair of    *)
(* tasks, cycles included                                                    *)
PathGraphs ==
    {E \in SUBSET PathRows :
       /\ Cardinality(E) <= MaxEdges
       /\ \A e, f \in E : (e.parent = f.parent /\ e.depends_on = f.depends_on) => e = f}

(* open tasks with the dates of a chain, any graph over them, in a project  *)
(* that starts with the first task, or has no start or no end date          *)
InitPath ==
    /\ InitCommon
    /\ status = [t \in TaskIds |-> "Open"]
    /\ \E dur \in ChainDurations :
          /\ start_date = [t \in TaskIds |-> ChainStart(dur, t)]
          /\ due_date = [t \in TaskIds |-> ChainStart(dur, t) + dur[t] - 1]
          /\ \E pd \in LET end == ChainStart(dur, NumTasks) + dur[NumTasks] + MaxSlack
                       IN {<<0, end>>, <<0, NoDate>>, <<NoDate, end>>} :
                /\ project_start = pd[1]
                /\ project_end = pd[2]
    /\ task_group = [t \in TaskIds |-> ""]
    /\ depends_on_group = [t \in TaskIds |-> ""]
    /\ sched = [t \in TaskIds |-> "Standard"]
    /\ edges \in PathGraphs
    /\ is_blocked = [t \in TaskIds |-> FALSE]
    /\ mode = "Off"
    /\ today = 0

NextPath ==
    \/ \E names \in Perms(ActiveTasks(DB)) : GetCriticalPathCall(names)
    \/ \E t \in {1, NumTasks}, st \in BlockedStatuses : BulkUpdateStatus({t}, st)
    \/ \E st \in BlockedStatuses : BulkUpdateStatus(TaskIds, st)

SpecPath == InitPath /\ [][NextPath]_vars

(* the Finish-to-Start rows between two tasks that are neither Completed    *)
(* nor Cancelled                                                             *)
ActiveFSRows ==
    {e \in edges : /\ e.dependency_type = FS
                   /\ e.parent \in ActiveTasks(DB)
                   /\ e.depends_on \in ActiveTasks(DB)}

ActiveFSAcyclic == \A t \in TaskIds : ~TransitivelyDependsOn(ActiveFSRows, t, t)

(* duration, ES, EF, LF, LS as specified, in day offsets from project_start *)
SpecifiedDuration(n) == Max2(1, (due_date[n] - start_date[n]) + 1)

RECURSIVE SpecifiedES(_, _)
SpecifiedES(n, k) ==
    LET P == {e \in ActiveFSRows : e.parent = n}
    IN IF P = {} \/ k = 0 THEN start_date[n] - project_start
       ELSE SetMax({SpecifiedES(e.depends_on, k - 1) + SpecifiedDuration(e.depends_on)
                      + e.lag_days : e \in P})

RECURSIVE SpecifiedLF(_, _)
SpecifiedLF(n, k) ==
    LET S == {e \in ActiveFSRows : e.depends_on = n}
    IN IF S = {} \/ k = 0 THEN project_end - project_start
       ELSE SetMin({SpecifiedLF(e.parent, k - 1) - SpecifiedDuration(e.parent)
                      - e.lag_days : e \in S})

SpecifiedFloat(n) ==
    (SpecifiedLF(n, NumTasks) - SpecifiedDuration(n)) - SpecifiedES(n, NumTasks)

(* C23: on an acyclic Finish-to-Start graph of non-terminal tasks in a      *)
(* project with both dates, the float get_critical_path returns for a task  *)
(* is LS - ES, with ES the largest EF + lag over its predecessors or its    *)
(* own start offset, EF = ES + duration, LF the smallest LS - lag over its  *)
(* successors or the project end offset, LS = LF - duration, and duration   *)
(* max(1, due - start + 1).                                                  *)
C23_FloatsFollowPasses ==
    (/\ last.op = "get_critical_path"
     /\ project_start # NoDate
     /\ project_end # NoDate
     /\ ActiveFSAcyclic)
    => \A n \in ActiveTasks(DB) :
         /\ n \in DOMAIN last.args[1].task_floats
         /\ last.args[1].task_floats[n] = SpecifiedFloat(n)

(* the last task has two active predecessors with different lags, and the   *)
(* path was computed                                                         *)
C23_Witness ==
    /\ last.op = "get_critical_path"
    /\ project_end # NoDate
    /\ ActiveTasks(DB) = TaskIds
    /\ {Row(3, 1, FS, MaxLag), Row(3, 2, FS, 0)} \subseteq edges
    /\ 3 \in DOMAIN last.args[1].task_floats
    /\ last.args[1].task_floats[3] = SpecifiedFloat(3)

(* some active task reaches itself over Finish-to-Start rows between active *)
(* tasks                                                                     *)
ActiveFSCycle == ~ActiveFSAcyclic

(* C24: get_critical_path answers on any stored graph: in a project with    *)
(* both dates, task_floats has an entry for exactly the tasks that are      *)
(* neither Completed nor Cancelled, a Finish-to-Start cycle among them      *)
(* included, and critical_tasks holds exactly the tasks whose float is at   *)
(* most 0; in a project without a start or an end date, or without such a   *)
(* task, both are empty.                                                     *)
C24_CriticalPathTotal ==
    last.op = "get_critical_path"
    => LET r == last.args[1]
           critical == {r.critical_tasks[i] : i \in DOMAIN r.critical_tasks}
       IN /\ last.ok
          /\ IF project_start = NoDate \/ project_end = NoDate \/ ActiveTasks(DB) = {}
             THEN critical = {} /\ DOMAIN r.task_floats = {}
             ELSE /\ DOMAIN r.task_floats = ActiveTasks(DB)
                  /\ critical = {n \in ActiveTasks(DB) : r.task_floats[n] <= 0}

(* the path was computed over a cycle between the first and the last task   *)
C24_Witness ==
    /\ last.op = "get_critical_path"
    /\ project_start # NoDate
    /\ project_end # NoDate
    /\ ActiveFSCycle
    /\ {1, NumTasks} \subseteq DOMAIN last.args[1].task_floats

-----------------------------------------------------------------------------
(* Auto-advance: the successors it leaves alone *)

(* the start the Finish-to-Start row e asks for when its predecessor is     *)
(* completed today                                                           *)
AdvanceTarget(e) ==
    (IF due_date[e.depends_on] # NoDate THEN Max2(today, due_date[e.depends_on] + 1)
     ELSE today) + e.lag_days

(* after the step, some task the parent of row e depends on Finish to Start *)
(* is not Completed                                                          *)
PredecessorPending(e) ==
    \E f \in edges' :
        /\ f.parent = e.parent
        /\ f.dependency_type = FS
        /\ status'[f.depends_on] # "Completed"

(* C25: when update_task_status or update_task completes a task, a          *)
(* Finish-to-Start successor keeps its start and due date if it is          *)
(* Completed or Cancelled, if one of its Finish-to-Start predecessors is    *)
(* not Completed, or if the start asked for is the one it has; in           *)
(* dependency mode Off every successor keeps its dates.                      *)
C25_AdvanceSkips ==
    [][CompletionStep =>
          \A e \in edges :
             (/\ e.depends_on = last'.task
              /\ e.dependency_type = FS
              /\ \/ mode = "Off"
                 \/ status'[e.parent] \in Terminal
                 \/ PredecessorPending(e)
                 \/ start_date[e.parent] = AdvanceTarget(e))
             => /\ start_date'[e.parent] = start_date[e.parent]
                /\ due_date'[e.parent] = due_date[e.parent]]_vars

(* A was completed outside mode Off: B, ready, was advanced, while C, which *)
(* also waits for the open B, kept its dates                                 *)
C25_Witness ==
    /\ last.op = "update_task_status"
    /\ last.ok
    /\ last.task = 1
    /\ last.args = <<"Completed">>
    /\ mode # "Off"
    /\ status[2] = "Open"
    /\ status[3] = "Open"
    /\ start_date[2] = 3
    /\ start_date[3] = 9
    /\ due_date[3] = 10

-----------------------------------------------------------------------------
(* preview_cascade on a deep chain and on a cycle *)

DeepSlack == 4

(* the request: it reads the tasks and rows and writes nothing *)
PreviewCascadeCall(t, new_start_date, new_end_date) ==
    /\ last' = Result("preview_cascade", t, TRUE,
                      <<PreviewCascade(DB, t, new_start_date, new_end_date),
                        new_start_date, new_end_date>>)
    /\ notified' = {}
    /\ UNCHANGED <<tasks, status, start_date, due_date, is_blocked, task_group,
                   depends_on_group, sched, edges, sort_order, parent_task,
                   ms_sort_order>>
    /\ UNCHANGED Env

(* a project of n open tasks: 2 depends on 1, 3 on 2, ... up to n - 1, and  *)
(* n depends on 1 as well; in a closed project task 1 also depends on       *)
(* n - 1, which makes the chain a cycle                                      *)
InitDeep ==
    \E n \in 3..(MaxCascadeDepth + DeepSlack), closed \in BOOLEAN :
        /\ tasks = 1..n
        /\ status = [t \in 1..n |-> "Open"]
        /\ start_date = [t \in 1..n |-> 0]
        /\ due_date = [t \in 1..n |-> 1]
        /\ is_blocked = [t \in 1..n |-> FALSE]
        /\ task_group = [t \in 1..n |-> ""]
        /\ depends_on_group = [t \in 1..n |-> ""]
        /\ sched = [t \in 1..n |-> "Standard"]
        /\ edges = {[parent |-> t + 1, depends_on |-> t, dependency_type |-> FS,
                     lag_days |-> 0] : t \in 1..(n - 2)}
                   \cup {[parent |-> n, depends_on |-> 1, dependency_type |-> FS,
                          lag_days |-> 0]}
                   \cup (IF closed
                         THEN {[parent |-> 1, depends_on |-> n - 1,
                                dependency_type |-> FS, lag_days |-> 0]}
                         ELSE {})
        /\ sort_order = [t \in 1..n |-> 0]
        /\ parent_task = [t \in 1..n |-> NoTask]
        /\ ms_sort_order = [m \in MsIds |-> 0]
        /\ ms_due_date = [m \in MsIds |-> NoDate]
        /\ notified = {}
        /\ template = <<>>
        /\ created = NoProject
        /\ mode = "Flexible"
        /\ project_start = 0
        /\ project_end = MaxDay
        /\ today = 0
        /\ last = Result("init", 0, TRUE, <<>>)

NextDeep ==
    \E t \in {1, 2}, shift \in {1, 0} : PreviewCascadeCall(t, start_date[t] + shift, NoDate)

SpecDeep == InitDeep /\ [][NextDeep]_vars

(* the tasks a path of 1..k dependency rows leads to from a task of F *)
RECURSIVE DependentsWithin(_, _)
DependentsWithin(F, k) ==
    IF k = 0 \/ F = {} THEN {}
    ELSE IF k = 1 THEN {e.parent : e \in {x \in edges : x.depends_on \in F}}
    ELSE LET near == DependentsWithin(F, k \div 2)
         IN near \cup DependentsWithin(near, k - (k \div 2))

(* C26: preview_cascade answers on any graph: on a cycle and on a chain     *)
(* longer than the depth bound it returns, each task once, the tasks that   *)
(* a chain of at most MaxCascadeDepth + 1 rows leads to from the root, so   *)
(* the part of a branch beyond the bound is left out while the part within  *)
(* it and the other branches are listed.                                     *)
C26_PreviewTerminatesWithinBound ==
    (last.op = "preview_cascade" /\ last.args[1] # <<>>)
    => LET affected == last.args[1]
           listed == {affected[i].task_id : i \in DOMAIN affected}
       IN /\ last.ok
          /\ Cardinality(listed) = Len(affected)
          /\ listed = DependentsWithin({last.task}, MaxCascadeDepth + 1)

(* the preview from the first task of a chain longer than the bound: the    *)
(* branch through task 2 is cut after MaxCascadeDepth + 1 tasks and the     *)
(* other dependent of the root is listed                                     *)
C26_Witness ==
    /\ last.op = "preview_cascade"
    /\ last.task = 1
    /\ Cardinality(tasks) = MaxCascadeDepth + 4
    /\ LET listed == {last.args[1][i].task_id : i \in DOMAIN last.args[1]}
       IN /\ MaxCascadeDepth + 2 \in listed
          /\ MaxCascadeDepth + 3 \notin listed
          /\ MaxCascadeDepth + 4 \in listed

-----------------------------------------------------------------------------
(* Display order: the first-time initialization *)

(* the tasks and milestones of the project *)
ProjectRefs == {r \in ItemRefs : ItemExists(DB, r)}

(* no item of the project was ever ordered *)
NeverOrdered == \A r \in ProjectRefs : StoredKey(r) = 0

(* in d the items of the project have the keys 1000, 2000, ..., one each *)
EvenlyKeyed(d) ==
    /\ \A r \in ProjectRefs :
          \E i \in 1..Cardinality(ProjectRefs) : GetSortOrder(d, r) = i * INITIAL_GAP
    /\ \A r, q \in ProjectRefs : r # q => GetSortOrder(d, r) # GetSortOrder(d, q)

(* C27: the initialization that reorder_item runs first gives the items of  *)
(* a project in which every task and milestone has key 0 the keys           *)
(* (index + 1) * 1000, all distinct over tasks and milestones together; if  *)
(* any item has a key other than 0 it writes nothing.                        *)
C27_InitializationAllOrNothing ==
    [][(last'.op = "reorder_item" /\ last'.ok)
         => LET d == InitializeSortOrders(DB)
            IN IF NeverOrdered THEN EvenlyKeyed(d) ELSE d = DB]_vars

-----------------------------------------------------------------------------
(* Failing notifications and recalculations *)

(* update_task(name, {status: new_status}) when the notification of the     *)
(* tasks of notify_fails and the recalculation of the tasks of recalc_fails *)
(* raise                                                                     *)
UpdateTaskFailing(name, new_status, notify_fails, recalc_fails) ==
    LET updates == [status |-> new_status]
    IN IF name \notin tasks \/ UpdateTaskValidationFails(DB, name, updates)
       THEN Rejected("update_task", name, <<updates, <<>>, notify_fails, recalc_fails>>)
       ELSE \E order \in Perms(DependentsOf(WriteFields(DB, name, updates, DOMAIN updates),
                                            name)) :
              LET d1 == WriteFields(DB, name, updates, DOMAIN updates)
                  d2 == SetField(d1, "is_blocked", name, UpdateBlockedStatus(d1, name))
                  d3 == UpdateDependentTasksFailing(d2, name, order, notify_fails,
                                                    recalc_fails)
                  d4 == IF new_status = "Completed" /\ GetProjectDependencyMode # "Off"
                        THEN AdvanceSuccessorsOnCompletion(d3, name)
                        ELSE d3
              IN /\ InRange(d4)
                 /\ Commit(d4)
                 /\ last' = Result("update_task", name, TRUE,
                                   <<updates, order, notify_fails, recalc_fails>>)
                 /\ UNCHANGED Env

(* A = [day 0, day 4]; the Hammock task B depends on A; C = [day 10, day    *)
(* 11] depends on A and on B; B's dates are those derived from A and C, or  *)
(* older ones that a move of C by apply_cascade has left behind             *)
InitIsolated ==
    /\ InitCommon
    /\ status = [t \in TaskIds |-> "Open"]
    /\ start_date = [t \in TaskIds |->
                       IF t = 1 THEN 0 ELSE IF t = 2 THEN 5 ELSE IF t = 3 THEN 10 ELSE NoDate]
    /\ \E due2 \in {7, 9} :
          due_date = [t \in TaskIds |->
                        IF t = 1 THEN 4 ELSE IF t = 2 THEN due2
                        ELSE IF t = 3 THEN 11 ELSE NoDate]
    /\ task_group = [t \in TaskIds |-> ""]
    /\ depends_on_group = [t \in TaskIds |-> ""]
    /\ sched = [t \in TaskIds |-> IF t = 2 THEN "Hammock" ELSE "Standard"]
    /\ edges = {Row(2, 1, FS, 0), Row(3, 1, FS, 0), Row(3, 2, FS, 0)}
    /\ is_blocked = [t \in TaskIds |-> UpdateBlockedStatus(StoredRows, t)]
    /\ mode = "Off"
    /\ project_start = 0
    /\ project_end = MaxDay
    /\ today = 0

(* no failure, or one failing task *)
FailSets == {{}} \cup {{u} : u \in TaskIds}

NextIsolated ==
    \E t \in TaskIds, st \in AdvanceStatuses, nf \in FailSets, rf \in FailSets :
        UpdateTaskFailing(t, st, nf, rf)

SpecIsolated == InitIsolated /\ [][NextIsolated]_vars

(* the step is an update_task whose secondary effects may have failed *)
FailingStep == last'.op = "update_task" /\ Len(last'.args) = 4 /\ last'.ok

(* C28: when a notification or a hammock/buffer recalculation fails inside  *)
(* update_dependent_tasks, the status change is stored and the request      *)
(* succeeds, every dependent's is_blocked is stored as without the failure, *)
(* every task whose notification did not fail is notified, and every task   *)
(* whose recalculation did not fail has the dates it gets without the       *)
(* failure; a task whose recalculation failed keeps its dates.              *)
C28_SecondaryFailuresIsolated ==
    [][FailingStep =>
         LET name == last'.task
             updates == last'.args[1]
             notify_fails == last'.args[3]
             recalc_fails == last'.args[4]
             d0 == UpdateTaskWrites(DB, name, updates, last'.args[2])
         IN /\ status'[name] = updates.status
            /\ is_blocked' = d0.is_blocked
            /\ notified' = d0.notified \ notify_fails
            /\ \A u \in tasks \ recalc_fails :
                  start_date'[u] = d0.start_date[u] /\ due_date'[u] = d0.due_date[u]
            /\ \A u \in tasks \cap recalc_fails :
                  start_date'[u] = start_date[u] /\ due_date'[u] = due_date[u]]_vars

(* A was completed; the notification of B failed and its flag is cleared;   *)
(* the recalculation of C failed before B's turn and B has its new dates    *)
C28_Witness ==
    /\ last.op = "update_task"
    /\ last.ok
    /\ last.task = 1
    /\ last.args = <<[status |-> "Completed"], <<3, 2>>, {2}, {3}>>
    /\ ~is_blocked[2]
    /\ notified = {}
    /\ due_date[2] = 9
    /\ status[1] = "Completed"

-----------------------------------------------------------------------------
(* Display order: a drop between two neighbours keeps the order *)

(* prev and next are items of the project, prev before next, and no item    *)
(* other than the moved one lies between them                                *)
AdjacentInOrder(item, prev, next) ==
    /\ prev \in ProjectRefs
    /\ next \in ProjectRefs
    /\ StoredKey(prev) < StoredKey(next)
    /\ \A q \in ProjectRefs \ {item, prev, next} :
          ~(StoredKey(prev) < StoredKey(q) /\ StoredKey(q) < StoredKey(next))

(* C29: when reorder_item drops an item between two items that are          *)
(* adjacent in the display order, prev before next, the moved item's key    *)
(* lies strictly between theirs after the call, and any two other items     *)
(* are in the same order as before, also when the precision guard has       *)
(* renumbered the project.                                                   *)
C29_ReorderKeepsOrder ==
    [][LET item == Ref(last'.args[1], last'.task)
           prev == last'.args[2]
           next == last'.args[3]
       IN (last'.op = "reorder_item" /\ last'.ok /\ AdjacentInOrder(item, prev, next))
          => /\ StoredKeyAfter(prev) < StoredKeyAfter(item)
             /\ StoredKeyAfter(item) < StoredKeyAfter(next)
             /\ \A r, q \in ProjectRefs \ {item} :
                   StoredKey(r) < StoredKey(q) => StoredKeyAfter(r) < StoredKeyAfter(q)]_vars

-----------------------------------------------------------------------------
(* apply_cascade with the changes of a preview *)

(* the chain of InitCascade, which a row of A on C may close into a cycle *)
InitPreviewed ==
    /\ InitCommon
    /\ status = [t \in TaskIds |-> "Open"]
    /\ start_date = [t \in TaskIds |->
                       IF t = 1 THEN 0 ELSE IF t = 2 THEN 5 ELSE IF t = 3 THEN 10 ELSE NoDate]
    /\ \E due2 \in {7, NoDate} :
          due_date = [t \in TaskIds |->
                        IF t = 1 THEN 4 ELSE IF t = 2 THEN due2 ELSE IF t = 3 THEN 11 ELSE NoDate]
    /\ task_group = [t \in TaskIds |-> ""]
    /\ depends_on_group = [t \in TaskIds |-> ""]
    /\ sched = [t \in TaskIds |-> "Standard"]
    /\ \E closed \in BOOLEAN :
          edges = {Row(2, 1, FS, 0), Row(3, 2, FS, 2)}
                  \cup (IF closed THEN {Row(1, 3, FS, 0)} ELSE {})
    /\ is_blocked = [t \in TaskIds |-> UpdateBlockedStatus(StoredRows, t)]
    /\ mode = "Strict"
    /\ project_start = 0
    /\ project_end = MaxDay
    /\ today = 0

(* the client shows a preview and, if the user agrees, applies it; other    *)
(* requests arrive in between previews                                       *)
ApplyPreviewed ==
    /\ last.op = "preview_cascade"
    /\ ApplyCascade(last.task, last.args[2], last.args[3], last.args[1], 0)

NextPreviewed ==
    \/ \E t \in TaskIds : \E ns \in StartInputs(t), ne \in EndInputs(t) :
          PreviewCascadeCall(t, ns, ne)
    \/ ApplyPreviewed
    \/ \E t \in TaskIds : \E ne \in NewDates(due_date[t]) :
          UpdateTask(t, [due_date |-> ne], 0)

SpecPreviewed == InitPreviewed /\ [][NextPreviewed]_vars

(* C30: apply_cascade with the affected_tasks of a preview made just before *)
(* for the same task and dates leaves every task with the start and due     *)
(* date that apply_cascade without changes leaves; the tasks whose dates    *)
(* differ afterwards are the root or listed by the preview, and every       *)
(* listed task has the dates of its entry.                                   *)
C30_PreviewThenApplyIsApply ==
    [][(last.op = "preview_cascade" /\ last'.op = "apply_cascade" /\ last'.ok)
         => LET t == last.task
                preview == last.args[1]
                listed == {preview[i].task_id : i \in DOMAIN preview}
                alone == RunBatch(DB, CascadeWrites(t, last.args[2], last.args[3],
                                     ChangesList(DB, t, last.args[2], last.args[3], <<>>)), 0)
            IN /\ start_date' = alone.start_date
               /\ due_date' = alone.due_date
               /\ \A u \in tasks :
                     (start_date'[u] # start_date[u] \/ due_date'[u] # due_date[u])
                     => u \in listed \cup {t}
               /\ \A i \in DOMAIN preview :
                     /\ preview[i].new_value # NoDate
                           => start_date'[preview[i].task_id] = preview[i].new_value
                     /\ preview[i].new_end_date # NoDate
                           => due_date'[preview[i].task_id] = preview[i].new_end_date]_vars

(* the previewed move of A's due date was applied: B and C have moved *)
C30_Witness ==
    /\ last.op = "apply_cascade"
    /\ last.ok
    /\ last.task = 1
    /\ due_date[1] = 4 + CascadeShift
    /\ start_date[2] = 5 + CascadeShift
    /\ start_date[3] = 10 + CascadeShift
    /\ due_date[3] = 11 + CascadeShift

====
